---- MODULE Spec2Model ----
(***************************************************************************)
(* Model of the RNS engine of halo2wrong (src/src/rns.rs) and of the       *)
(* integer-chip operations built on it (src/src/circuit/integer).           *)
(*                                                                         *)
(* The source computes with arbitrary-precision naturals (big_uint) and    *)
(* with elements of two prime fields, the "wrong" field W and the native   *)
(* field N.  A big_uint is modelled as the little-endian sequence of its    *)
(* base-2^12 digits without leading zeros, so that no value is cut to the   *)
(* width of a machine integer.  A field element is its canonical           *)
(* representative, a natural below the modulus (both moduli stay below     *)
(* 2^29).                                                                   *)
(***************************************************************************)
EXTENDS Integers, Naturals, Sequences, FiniteSets, TLC

(***************************************************************************)
(* big_uint                                                                *)
(***************************************************************************)
BigDigitBits == 12
BigBase == 2 ^ BigDigitBits

Max2(x, y) == IF x >= y THEN x ELSE y
Min2(x, y) == IF x <= y THEN x ELSE y

Digit(s, i) == IF i >= 1 /\ i <= Len(s) THEN s[i] ELSE 0

RECURSIVE BigNorm(_)
BigNorm(s) ==
    IF s = << >> THEN s
    ELSE IF s[Len(s)] = 0 THEN BigNorm(SubSeq(s, 1, Len(s) - 1))
    ELSE s

\* big_uint::from(x) for a machine integer x
RECURSIVE BigFromInt(_)
BigFromInt(x) ==
    IF x = 0 THEN << >> ELSE <<x % BigBase>> \o BigFromInt(x \div BigBase)

\* the machine integer of a big_uint below 2^31
RECURSIVE BigToInt(_)
BigToInt(s) ==
    IF s = << >> THEN 0 ELSE s[1] + BigBase * BigToInt(Tail(s))

BigZero == << >>
BigOne == <<1>>

\* carries (or borrows, for negative columns) pushed through column sums
RECURSIVE BigCarry(_, _)
BigCarry(cols, c) ==
    IF cols = << >> THEN BigFromInt(c)
    ELSE LET v == cols[1] + c
         IN  <<v % BigBase>> \o BigCarry(Tail(cols), v \div BigBase)

BigAdd(x, y) ==
    IF x = << >> THEN y
    ELSE IF y = << >> THEN x
    ELSE BigNorm(BigCarry([i \in 1..Max2(Len(x), Len(y)) |-> Digit(x, i) + Digit(y, i)], 0))

\* the sum of the big_uints of a sequence (a fold with +), column by column
RECURSIVE BigMaxLen(_, _)
BigMaxLen(xs, i) ==
    IF i > Len(xs) THEN 0 ELSE Max2(Len(xs[i]), BigMaxLen(xs, i + 1))

RECURSIVE BigColumn(_, _, _)
BigColumn(xs, c, i) ==
    IF i > Len(xs) THEN 0 ELSE Digit(xs[i], c) + BigColumn(xs, c, i + 1)

BigSum(xs) ==
    BigNorm(BigCarry([c \in 1..BigMaxLen(xs, 1) |-> BigColumn(xs, c, 1)], 0))

RECURSIVE BigCmpAt(_, _, _)
BigCmpAt(x, y, i) ==
    IF i = 0 THEN 0
    ELSE IF x[i] < y[i] THEN -1
    ELSE IF x[i] > y[i] THEN 1
    ELSE BigCmpAt(x, y, i - 1)

\* -1, 0, 1 as x is below, equal to, above y
BigCmp(x, y) ==
    IF Len(x) < Len(y) THEN -1
    ELSE IF Len(x) > Len(y) THEN 1
    ELSE BigCmpAt(x, y, Len(x))

BigLt(x, y) == BigCmp(x, y) = -1
BigLe(x, y) == BigCmp(x, y) <= 0
BigGt(x, y) == BigCmp(x, y) = 1
BigGe(x, y) == BigCmp(x, y) >= 0

\* x - y for x >= y (big_uint subtraction panics otherwise; callers check)
BigSub(x, y) ==
    IF y = << >> THEN x
    ELSE BigNorm(BigCarry([i \in 1..Len(x) |-> x[i] - Digit(y, i)], 0))

RECURSIVE BigColSum(_, _, _, _)
BigColSum(x, y, k, i) ==
    IF i > Min2(Len(x), k) THEN 0
    ELSE x[i] * Digit(y, k + 1 - i) + BigColSum(x, y, k, i + 1)

BigMul(x, y) ==
    IF x = << >> \/ y = << >> THEN << >>
    ELSE BigNorm(BigCarry([k \in 1..(Len(x) + Len(y) - 1) |->
                              BigColSum(x, y, k, Max2(1, k + 1 - Len(y)))], 0))

\* 1 << k
BigPow2(k) ==
    [i \in 1..((k \div BigDigitBits) + 1) |->
        IF i = (k \div BigDigitBits) + 1 THEN 2 ^ (k % BigDigitBits) ELSE 0]

\* x << k
BigShl(x, k) == BigMul(x, BigPow2(k))

\* x >> k
BigShr(x, k) ==
    LET q == k \div BigDigitBits
        s == k % BigDigitBits
        n == Len(x) - q
    IN  IF n <= 0 THEN << >>
        ELSE BigNorm([i \in 1..n |->
                 (x[i + q] \div (2 ^ s))
                 + (Digit(x, i + q + 1) % (2 ^ s)) * (2 ^ (BigDigitBits - s))])

RECURSIVE IntAnd(_, _)
IntAnd(x, y) ==
    IF x = 0 \/ y = 0 THEN 0
    ELSE (x % 2) * (y % 2) + 2 * IntAnd(x \div 2, y \div 2)

\* x & y
BigAnd(x, y) ==
    IF x = << >> \/ y = << >> THEN << >>
    ELSE BigNorm([i \in 1..Min2(Len(x), Len(y)) |-> IntAnd(x[i], y[i])])

\* the length of a machine integer in bits, four bits at a time
RECURSIVE IntBits(_)
IntBits(x) ==
    IF x >= 16 THEN 4 + IntBits(x \div 16)
    ELSE IF x >= 8 THEN 4
    ELSE IF x >= 4 THEN 3
    ELSE IF x >= 2 THEN 2
    ELSE x

\* x.bits(): the length of x in bits, 0 for 0
BigBits(x) ==
    IF x = << >> THEN 0
    ELSE BigDigitBits * (Len(x) - 1) + IntBits(x[Len(x)])

\* one digit of a long division by the machine integer d < 2^25, taken in
\* two halves of six bits so that every intermediate value stays within 32
\* bits: <<quotient digit, remainder>> of r * BigBase + digit, v1 the value
\* after the first half, for the remainder r < d carried in
BigDivHalves(v1, digit, d) ==
    << (v1 \div d) * 64 + (((v1 % d) * 64 + (digit % 64)) \div d),
       ((v1 % d) * 64 + (digit % 64)) % d >>

\* the same for 2^25 <= d < 2^30: the quotient digit q is estimated from
\* the leading part of d and is at most one too large
BigDivEstimate(q, rem, d) ==
    IF rem >= 0 THEN << q, rem >> ELSE << q - 1, rem + d >>

BigDivGuess(r, digit, d, q) ==
    BigDivEstimate(q, (r - q * (d \div BigBase)) * BigBase + digit - q * (d % BigBase), d)

BigDivDigit(r, digit, d) ==
    CASE r < d /\ d < 2 ^ 25 -> BigDivHalves(r * 64 + (digit \div 64), digit, d)
      [] r < d /\ d >= 2 ^ 25 /\ d < 2 ^ 30 ->
            BigDivGuess(r, digit, d, Min2(BigBase - 1, r \div (d \div BigBase)))

\* the remainder of the long division from digit i of x down, r the
\* remainder of the digits above
RECURSIVE BigRemFrom(_, _, _, _)
BigRemFrom(x, i, r, d) ==
    IF r >= 0 /\ i >= 1
    THEN BigRemFrom(x, i - 1, BigDivDigit(r, x[i], d)[2], d)
    ELSE r

\* x % d as a machine integer
BigRemInt(x, d) == BigRemFrom(x, Len(x), 0, d)

\* the long division from digit i of x down: qr = <<quotient digits so
\* far, remainder so far>>, s the next <<quotient digit, remainder>>
BigDivPush(qr, s) == << <<s[1]>> \o qr[1], s[2] >>

RECURSIVE BigDivFrom(_, _, _, _)
BigDivFrom(x, i, qr, d) ==
    IF qr[2] >= 0 /\ i >= 1
    THEN BigDivFrom(x, i - 1, BigDivPush(qr, BigDivDigit(qr[2], x[i], d)), d)
    ELSE qr

BigDivRemOf(qr) == << BigNorm(qr[1]), BigFromInt(qr[2]) >>

\* x.div_rem(&y): <<quotient, remainder>> (every divisor of the program is
\* one of the two field moduli)
BigDivRem(x, y) == BigDivRemOf(BigDivFrom(x, Len(x), << << >>, 0 >>, BigToInt(y)))

BigDiv(x, y) == BigDivRem(x, y)[1]
BigRem(x, y) == BigDivRem(x, y)[2]

(***************************************************************************)
(* Field elements (halo2 FieldExt).  F names a field by its modulus.        *)
(***************************************************************************)
NUMBER_OF_LIMBS == 4
NUMBER_OF_LOOKUP_LIMBS == 4

None == [is_some |-> FALSE]
Some(v) == [is_some |-> TRUE, value |-> v]

\* modulus::<F>()
modulus(F) == BigFromInt(F)

\* fe_to_big: the canonical representative
fe_to_big(fe) == BigFromInt(fe)

\* big_to_fe: F::from_str_vartime of the decimal digits, which accumulates
\* the digits in the field and so reduces the value modulo the field
big_to_fe(e, F) == BigRemInt(e, F)

FieldAdd(x, y, F) == (x + y) % F
FieldSub(x, y, F) == (x + F - y) % F
FieldNeg(x, F) == (F - x) % F

\* double-and-add from the two-bit group i of y down, acc the product by
\* the groups above it; every intermediate value stays within 32 bits for
\* F < 2^29
RECURSIVE FieldMulFrom(_, _, _, _, _)
FieldMulFrom(x, y, i, acc, F) ==
    IF acc >= 0 /\ i >= 1
    THEN FieldMulFrom(x, y, i - 1,
             (((4 * acc) % F) + ((((y \div (4 ^ (i - 1))) % 4) * x) % F)) % F, F)
    ELSE acc

\* x * y in F
FieldMul(x, y, F) == FieldMulFrom(x, y, (IntBits(y) + 1) \div 2, 0, F)

\* square-and-multiply from bit i of the exponent down, acc the power
\* by the bits above it
RECURSIVE FieldPowFrom(_, _, _, _, _)
FieldPowFrom(x, e, i, acc, F) ==
    IF acc >= 0 /\ i >= 1
    THEN FieldPowFrom(x, e, i - 1,
             IF (e \div (2 ^ (i - 1))) % 2 = 1
             THEN FieldMul(FieldMul(acc, acc, F), x, F)
             ELSE FieldMul(acc, acc, F), F)
    ELSE acc

\* x.pow(&[e, 0, 0, 0]) for e < 2^31
FieldPow(x, e, F) == FieldPowFrom(x, e, IntBits(e), 1 % F, F)

\* the extended Euclidean algorithm on the remainders r0 > r1 with the
\* coefficients t0, t1 of x in them (r = t * x in F): the coefficient of the
\* last remainder, which is 1 in a field
RECURSIVE FieldEuclid(_, _, _, _)
FieldEuclid(r0, r1, t0, t1) ==
    IF t1 # 0 /\ r1 # 0
    THEN FieldEuclid(r1, r0 % r1, t1, t0 - (r0 \div r1) * t1)
    ELSE t0

\* x.invert(): none for zero, else the inverse of x in F
FieldInvert(x, F) == IF x = 0 THEN None ELSE Some(FieldEuclid(F, x, 0, 1) % F)

(***************************************************************************)
(* Limbs and Integers                                                      *)
(***************************************************************************)
\* decompose: number_of_limbs limbs, each the low bit_len bits of what is
\* left of e, turned into a field element of F
RECURSIVE decompose(_, _, _, _)
decompose(e, number_of_limbs, bit_len, F) ==
    IF number_of_limbs = 0 THEN << >>
    ELSE LET mask == BigSub(BigShl(BigOne, bit_len), BigOne)
             limb == BigAnd(mask, e)
         IN  <<big_to_fe(limb, F)>>
             \o decompose(BigShr(e, bit_len), number_of_limbs - 1, bit_len, F)

\* a faulty compose that shifts by whole nibbles only, so that limbs
\* narrower than four bits fall on top of each other
compose_nibbles(input, bit_len) ==
    BigSum([i \in 1..Len(input) |-> BigShl(input[i], 4 * (bit_len \div 4) * (i - 1))])

\* compose: the sum of limb << (bit_len * i)
compose(input, bit_len) ==
    BigSum([i \in 1..Len(input) |-> BigShl(input[i], bit_len * (i - 1))])

\* Integer { limbs, bit_len_limb }
Integer(limbs, bit_len_limb) == [limbs |-> limbs, bit_len_limb |-> bit_len_limb]

\* Integer::from_big
from_big(e, number_of_limbs, bit_len_limb, F) ==
    Integer(decompose(e, number_of_limbs, bit_len_limb, F), bit_len_limb)

\* Common::value of an Integer
value(integer) ==
    compose([i \in 1..Len(integer.limbs) |-> fe_to_big(integer.limbs[i])],
            integer.bit_len_limb)

\* Common::native
native(integer, F) == big_to_fe(BigRem(value(integer), modulus(F)), F)

(***************************************************************************)
(* Rns operations.  rns is the bundle built by construct (below); N and W   *)
(* are rns.N and rns.W.  An operation that hits a failed assert! returns    *)
(* Panic.                                                                   *)
(***************************************************************************)
Panic == [panic |-> TRUE]

\* Rns::new_from_limbs
new_from_limbs(rns, limbs) == Integer(limbs, rns.bit_len_limb)

\* Rns::new_from_big, whose assert!(e <= max_dense_value) the caller tests
\* with new_from_big_asserts
new_from_big_asserts(rns, e) == BigLe(e, rns.max_dense_value)
new_from_big(rns, e) ==
    new_from_limbs(rns, decompose(e, NUMBER_OF_LIMBS, rns.bit_len_limb, rns.N))

\* bool_to_big
bool_to_big(truth) == IF truth THEN BigOne ELSE BigZero

\* a faulty limb comparison that forgets the borrow of the limb below when it
\* decides whether to borrow
compare_limb_no_carry(rns, limb, modulus_limb, prev_borrow) ==
    LET cur_borrow == BigLt(modulus_limb, limb)
        minuend == BigAdd(modulus_limb, BigShl(bool_to_big(cur_borrow), rns.bit_len_limb))
    IN  IF BigLt(minuend, BigAdd(prev_borrow, limb)) THEN Panic
        ELSE [panic |-> FALSE, borrow |-> cur_borrow,
              limb |-> big_to_fe(BigSub(BigSub(minuend, prev_borrow), limb), rns.N)]

\* Rns::compare_to_modulus, the closure for one limb: the borrow flag and the
\* limb of the result; a big_uint subtraction below zero is a panic
compare_limb(rns, limb, modulus_limb, prev_borrow) ==
    LET cur_borrow == BigLt(modulus_limb, BigAdd(limb, prev_borrow))
        minuend == BigAdd(modulus_limb, BigShl(bool_to_big(cur_borrow), rns.bit_len_limb))
    IN  IF BigLt(minuend, BigAdd(prev_borrow, limb)) THEN Panic
        ELSE [panic |-> FALSE, borrow |-> cur_borrow,
              limb |-> big_to_fe(BigSub(BigSub(minuend, prev_borrow), limb), rns.N)]

\* Rns::compare_to_modulus from limb i on, prev_borrow carried from the limb
\* below, limbs and borrow the results so far
RECURSIVE compare_from(_, _, _, _, _, _)
RECURSIVE compare_step(_, _, _, _, _, _)
compare_from(rns, integer, i, prev_borrow, limbs, borrow) ==
    IF i > NUMBER_OF_LIMBS
    THEN [panic |-> FALSE, result |-> new_from_limbs(rns, limbs), borrow |-> borrow]
    ELSE compare_step(rns, integer, i, limbs, borrow,
             compare_limb(rns, fe_to_big(integer.limbs[i]),
                          fe_to_big(rns.wrong_modulus_minus_one.limbs[i]), prev_borrow))

\* Rns::compare_to_modulus after the closure has run for limb i
compare_step(rns, integer, i, limbs, borrow, r) ==
    IF r.panic THEN Panic
    ELSE compare_from(rns, integer, i + 1, bool_to_big(r.borrow),
                      Append(limbs, r.limb), Append(borrow, r.borrow))

\* ComparisionResult { result, borrow } of Rns::compare_to_modulus
compare_to_modulus(rns, integer) ==
    compare_from(rns, integer, 1, BigZero, << >>, << >>)

\* a faulty residue helper that hands back u_1 with the carry of u_0 added
residues_carried(rns, u_0, u_1) ==
    IF BigAnd(fe_to_big(u_0), rns.two_limb_mask) # BigZero THEN Panic
    ELSE IF BigAnd(fe_to_big(FieldAdd(FieldMul(u_0, rns.right_shifter_2r, rns.N), u_1, rns.N)),
                   rns.two_limb_mask) # BigZero THEN Panic
    ELSE [panic |-> FALSE, u_0 |-> u_0,
          u_1 |-> FieldAdd(FieldMul(u_0, rns.right_shifter_2r, rns.N), u_1, rns.N),
          v_0 |-> FieldMul(u_0, rns.right_shifter_2r, rns.N),
          v_1 |-> FieldMul(FieldAdd(u_1, FieldMul(u_0, rns.right_shifter_2r, rns.N), rns.N),
                           rns.right_shifter_2r, rns.N)]

\* a faulty residue helper whose carries are shifted down by one limb only
residues_short_shift(rns, u_0, u_1) ==
    IF BigAnd(fe_to_big(u_0), rns.two_limb_mask) # BigZero THEN Panic
    ELSE IF BigAnd(fe_to_big(FieldAdd(FieldMul(u_0, rns.right_shifter_2r, rns.N), u_1, rns.N)),
                   rns.two_limb_mask) # BigZero THEN Panic
    ELSE [panic |-> FALSE, u_0 |-> u_0, u_1 |-> u_1,
          v_0 |-> FieldMul(u_0, rns.right_shifter_r, rns.N),
          v_1 |-> FieldMul(FieldAdd(u_1, FieldMul(u_0, rns.right_shifter_2r, rns.N), rns.N),
                           rns.right_shifter_r, rns.N)]

\* Rns::residues from u_0 and u_1 on: the sanity check, whose failure is a
\* Panic, and (u_0, u_1, v_0, v_1)
residues_of(rns, u_0, u_1) ==
    IF BigAnd(fe_to_big(u_0), rns.two_limb_mask) # BigZero THEN Panic
    ELSE IF BigAnd(fe_to_big(FieldAdd(FieldMul(u_0, rns.right_shifter_2r, rns.N), u_1, rns.N)),
                   rns.two_limb_mask) # BigZero THEN Panic
    ELSE [panic |-> FALSE, u_0 |-> u_0, u_1 |-> u_1,
          v_0 |-> FieldMul(u_0, rns.right_shifter_2r, rns.N),
          v_1 |-> FieldMul(FieldAdd(u_1, FieldMul(u_0, rns.right_shifter_2r, rns.N), rns.N),
                           rns.right_shifter_2r, rns.N)]

\* Rns::residues: (u_0, u_1, v_0, v_1), or Panic when the sanity check fails
residues(rns, t, r) ==
    LET N == rns.N
        s == rns.left_shifter_r
    IN  residues_of(rns,
            FieldSub(FieldSub(FieldAdd(t[1], FieldMul(s, t[2], N), N), r.limbs[1], N),
                     FieldMul(s, r.limbs[2], N), N),
            FieldSub(FieldSub(FieldAdd(t[3], FieldMul(s, t[4], N), N), r.limbs[3], N),
                     FieldMul(s, r.limbs[4], N), N))

\* ReductionContext { result, quotient, t, u_0, u_1, v_0, v_1 } with the
\* residues res, or their Panic
ReductionContext(result, quotient, t, res) ==
    IF res.panic THEN Panic
    ELSE [panic |-> FALSE, result |-> result, quotient |-> quotient, t |-> t,
          u_0 |-> res.u_0, u_1 |-> res.u_1, v_0 |-> res.v_0, v_1 |-> res.v_1]

\* the end of Rns::reduce and of Rns::mul: the residues of t and the result
reduction_context(rns, result, quotient, t) ==
    ReductionContext(result, quotient, t, residues(rns, t, result))

\* a faulty reduce that takes the quotient only when the value is above
\* the modulus, and leaves a value equal to the modulus as it is
reduce_above(rns, integer) ==
    LET N == rns.N
        negative_modulus == rns.negative_wrong_modulus_decomposed
        qr == IF value(integer) = rns.wrong_modulus
              THEN << BigZero, rns.wrong_modulus >>
              ELSE BigDivRem(value(integer), rns.wrong_modulus)
        quotient == big_to_fe(qr[1], N)
        t == [i \in 1..NUMBER_OF_LIMBS |->
                 FieldAdd(integer.limbs[i], FieldMul(negative_modulus[i], quotient, N), N)]
        result == new_from_big(rns, qr[2])
        res == residues(rns, t, result)
    IN  IF ~BigLt(qr[1], BigShl(BigOne, rns.bit_len_limb)) THEN Panic
        ELSE IF ~new_from_big_asserts(rns, qr[2]) THEN Panic
        ELSE IF res.panic THEN Panic
        ELSE [panic |-> FALSE, result |-> result,
              quotient |-> [kind |-> "Short", fe |-> quotient],
              t |-> t, u_0 |-> res.u_0, u_1 |-> res.u_1, v_0 |-> res.v_0, v_1 |-> res.v_1]

\* Rns::reduce from the quotient in N and the result on
reduce_quotient(rns, integer, quotient, result) ==
    reduction_context(rns, result, [kind |-> "Short", fe |-> quotient],
        [i \in 1..NUMBER_OF_LIMBS |->
            FieldAdd(integer.limbs[i],
                     FieldMul(rns.negative_wrong_modulus_decomposed[i], quotient, rns.N),
                     rns.N)])

\* a faulty reduce that does not check the quotient against a single limb
reduce_any_quotient(rns, integer, qr) ==
    IF ~new_from_big_asserts(rns, qr[2]) THEN Panic
    ELSE reduce_quotient(rns, integer, big_to_fe(qr[1], rns.N), new_from_big(rns, qr[2]))

\* Rns::reduce from qr = value.div_rem(&modulus) on
reduce_div_rem(rns, integer, qr) ==
    IF ~BigLt(qr[1], BigShl(BigOne, rns.bit_len_limb)) THEN Panic
    ELSE IF ~new_from_big_asserts(rns, qr[2]) THEN Panic
    ELSE reduce_quotient(rns, integer, big_to_fe(qr[1], rns.N), new_from_big(rns, qr[2]))

\* Rns::reduce
reduce(rns, integer) ==
    reduce_div_rem(rns, integer, BigDivRem(value(integer), rns.wrong_modulus))

\* the inner loop of Rns::mul for one k: i runs over 0..=k, j = k - i
RECURSIVE mul_t(_, _, _, _, _, _)
mul_t(rns, integer_0, integer_1, quotient, k, i) ==
    IF i > k THEN 0
    ELSE LET N == rns.N
             j == k - i
         IN  FieldAdd(
                 FieldAdd(mul_t(rns, integer_0, integer_1, quotient, k, i + 1),
                          FieldMul(integer_0.limbs[i + 1], integer_1.limbs[j + 1], N), N),
                 FieldMul(rns.negative_wrong_modulus_decomposed[i + 1],
                          quotient.limbs[j + 1], N), N)

\* a faulty mul that adds the operands where it should multiply them
mul_sum(rns, integer_0, integer_1) ==
    LET qr == BigDivRem(BigAdd(value(integer_0), value(integer_1)), rns.wrong_modulus)
        quotient == new_from_big(rns, qr[1])
        result == new_from_big(rns, qr[2])
        l == NUMBER_OF_LIMBS
        t == [k \in 1..l |-> mul_t(rns, integer_0, integer_1, quotient, k - 1, 0)]
    IN  IF ~new_from_big_asserts(rns, qr[1]) THEN Panic
        ELSE IF ~new_from_big_asserts(rns, qr[2]) THEN Panic
        ELSE [panic |-> FALSE, result |-> result,
              quotient |-> [kind |-> "Long", integer |-> quotient], t |-> t]

\* a faulty mul that hands back the quotient of a zero product
mul_no_quotient(rns, integer_0, integer_1) ==
    LET qr == BigDivRem(BigMul(value(integer_0), value(integer_1)), rns.wrong_modulus)
        quotient == new_from_big(rns, BigZero)
        result == new_from_big(rns, qr[2])
        l == NUMBER_OF_LIMBS
        t == [k \in 1..l |-> mul_t(rns, integer_0, integer_1, quotient, k - 1, 0)]
    IN  IF ~new_from_big_asserts(rns, qr[1]) THEN Panic
        ELSE IF ~new_from_big_asserts(rns, qr[2]) THEN Panic
        ELSE [panic |-> FALSE, result |-> result,
              quotient |-> [kind |-> "Long", integer |-> quotient], t |-> t]

\* a faulty mul that leaves the quotient out of the intermediate values
mul_quotient_dropped(rns, integer_0, integer_1, quotient, result) ==
    reduction_context(rns, result, [kind |-> "Long", integer |-> quotient],
        [k \in 1..NUMBER_OF_LIMBS |->
            mul_t(rns, integer_0, integer_1, new_from_big(rns, BigZero), k - 1, 0)])

\* a faulty mul whose inner loop starts at i = 1
mul_quotient_from_one(rns, integer_0, integer_1, quotient, result) ==
    reduction_context(rns, result, [kind |-> "Long", integer |-> quotient],
        [k \in 1..NUMBER_OF_LIMBS |-> mul_t(rns, integer_0, integer_1, quotient, k - 1, 1)])

\* Rns::mul from the quotient and the result on
mul_quotient(rns, integer_0, integer_1, quotient, result) ==
    reduction_context(rns, result, [kind |-> "Long", integer |-> quotient],
        [k \in 1..NUMBER_OF_LIMBS |-> mul_t(rns, integer_0, integer_1, quotient, k - 1, 0)])

\* Rns::mul from qr = product.div_rem(&modulus) on
mul_div_rem(rns, integer_0, integer_1, qr) ==
    IF ~new_from_big_asserts(rns, qr[1]) THEN Panic
    ELSE IF ~new_from_big_asserts(rns, qr[2]) THEN Panic
    ELSE mul_quotient(rns, integer_0, integer_1,
                      new_from_big(rns, qr[1]), new_from_big(rns, qr[2]))

\* Rns::mul
mul(rns, integer_0, integer_1) ==
    mul_div_rem(rns, integer_0, integer_1,
                BigDivRem(BigMul(value(integer_0), value(integer_1)), rns.wrong_modulus))

\* a faulty invert that hands back the negated inverse
invert_negated(rns, a) ==
    LET a_w == big_to_fe(value(a), rns.W)
        inv_w == FieldInvert(a_w, rns.W)
    IN  IF ~inv_w.is_some THEN None
        ELSE Some(new_from_big(rns, fe_to_big(FieldNeg(inv_w.value, rns.W))))

\* a faulty invert that unwraps a missing inverse to the zero Integer
invert_or_default(rns, a) ==
    LET a_w == big_to_fe(value(a), rns.W)
        inv_w == FieldInvert(a_w, rns.W)
    IN  IF ~inv_w.is_some THEN Some(new_from_big(rns, BigZero))
        ELSE Some(new_from_big(rns, fe_to_big(inv_w.value)))

\* Rns::invert from inv_w = a_w.invert() on
invert_of(rns, inv_w) ==
    IF ~inv_w.is_some THEN None
    ELSE IF ~new_from_big_asserts(rns, fe_to_big(inv_w.value)) THEN Panic
    ELSE Some(new_from_big(rns, fe_to_big(inv_w.value)))

\* Rns::invert: Some(inverse), None when the operand is zero in W, or Panic
invert(rns, a) == invert_of(rns, FieldInvert(big_to_fe(value(a), rns.W), rns.W))

\* a faulty div that multiplies by b where it should multiply by its inverse
div_by_operand(rns, a, b) ==
    LET b_inv == invert(rns, b)
        a_mul_b == BigRem(BigMul(value(a), value(b)), rns.wrong_modulus)
    IN  IF "panic" \in DOMAIN b_inv THEN Panic
        ELSE IF ~b_inv.is_some THEN None
        ELSE IF ~new_from_big_asserts(rns, a_mul_b) THEN Panic
        ELSE Some(new_from_big(rns, a_mul_b))

\* a faulty div that answers a missing inverse of b with the zero Integer
div_or_default(rns, a, b) ==
    LET b_inv == invert(rns, b)
        a_mul_b == BigRem(BigMul(value(a), value(b_inv.value)), rns.wrong_modulus)
    IN  IF "panic" \in DOMAIN b_inv THEN Panic
        ELSE IF ~b_inv.is_some THEN Some(new_from_big(rns, BigZero))
        ELSE IF ~new_from_big_asserts(rns, a_mul_b) THEN Panic
        ELSE Some(new_from_big(rns, a_mul_b))

\* Rns::div from a_mul_b on
div_product(rns, a_mul_b) ==
    IF ~new_from_big_asserts(rns, a_mul_b) THEN Panic
    ELSE Some(new_from_big(rns, a_mul_b))

\* Rns::div from b_inv = self.invert(b) on
div_by(rns, a, b_inv) ==
    IF "panic" \in DOMAIN b_inv THEN Panic
    ELSE IF ~b_inv.is_some THEN None
    ELSE div_product(rns, BigRem(BigMul(value(a), value(b_inv.value)), rns.wrong_modulus))

\* Rns::div
div(rns, a, b) == div_by(rns, a, invert(rns, b))

\* the while loop of Rns::make_aux for one limb with aux > 0: it doubles
\* aux until max_val <= aux, so the last shift it hands to
\* max(shift, max_shift) is the least s with max_val <= aux << s (0 when
\* the body never runs), which is at most max_val.bits()
make_aux_shift(max_val, aux) ==
    LET enough == { s \in 0..BigBits(max_val) : BigGe(BigShl(aux, s), max_val) }
    IN  CHOOSE s \in enough : \A t \in enough : s <= t

RECURSIVE make_aux_max_shift(_, _, _)
make_aux_max_shift(max_vals, base_aux, i) ==
    IF i > NUMBER_OF_LIMBS THEN 0
    ELSE Max2(make_aux_shift(max_vals[i], base_aux[i]),
              make_aux_max_shift(max_vals, base_aux, i + 1))

\* Rns::make_aux; the doubling loop never ends on a zero limb of base_aux
\* below a positive max_val, reported as diverges
make_aux_diverges(rns, max_vals) ==
    \E i \in 1..NUMBER_OF_LIMBS :
        rns.base_aux.limbs[i] = 0 /\ max_vals[i] # BigZero

make_aux_shifted(rns, max_shift) ==
    new_from_limbs(rns,
        [i \in 1..NUMBER_OF_LIMBS |->
            big_to_fe(BigShl(fe_to_big(rns.base_aux.limbs[i]), max_shift), rns.N)])

make_aux(rns, max_vals) ==
    make_aux_shifted(rns,
        make_aux_max_shift(max_vals,
            [i \in 1..NUMBER_OF_LIMBS |-> fe_to_big(rns.base_aux.limbs[i])], 1))

(***************************************************************************)
(* Rns::construct                                                          *)
(***************************************************************************)
\* the borrow pass of calculate_base_aux, i = 0 .. NUMBER_OF_LIMBS - 2;
\* the big_uint subtraction of 1 from a zero limb panics
RECURSIVE base_aux_borrow(_, _, _, _)
base_aux_borrow(base_aux, i, bit_len_limb, r) ==
    IF i >= NUMBER_OF_LIMBS - 1 THEN [panic |-> FALSE, limbs |-> base_aux]
    ELSE LET hidx == NUMBER_OF_LIMBS - i - 1
             lidx == hidx - 1
         IN  IF BigBits(base_aux[lidx + 1]) < bit_len_limb + 1
             THEN IF base_aux[hidx + 1] = BigZero THEN Panic
                  ELSE base_aux_borrow(
                           [base_aux EXCEPT ![hidx + 1] = BigSub(@, BigOne),
                                            ![lidx + 1] = BigAdd(@, r)],
                           i + 1, bit_len_limb, r)
             ELSE base_aux_borrow(base_aux, i + 1, bit_len_limb, r)

\* the end of Rns::calculate_base_aux: the limbs left by the borrow pass as
\* an Integer
base_aux_integer(passed, bit_len_limb, N) ==
    IF passed.panic THEN Panic
    ELSE [panic |-> FALSE,
          integer |-> Integer([i \in 1..NUMBER_OF_LIMBS |-> big_to_fe(passed.limbs[i], N)],
                              bit_len_limb)]

\* a faulty calculate_base_aux that starts from four times the wrong modulus
base_aux_of_four(limbs, r, bit_len_limb, N) ==
    base_aux_integer(
        base_aux_borrow(<< BigShl(fe_to_big(limbs[1]), 2), BigShl(fe_to_big(limbs[2]), 2),
                           BigShl(fe_to_big(limbs[3]), 2), BigShl(fe_to_big(limbs[4]), 2) >>,
                        0, bit_len_limb, r),
        bit_len_limb, N)

\* Rns::calculate_base_aux from the limbs of the wrong modulus and r on
base_aux_of(limbs, r, bit_len_limb, N) ==
    base_aux_integer(
        base_aux_borrow(<< BigShl(fe_to_big(limbs[1]), 1), BigShl(fe_to_big(limbs[2]), 1),
                           BigShl(fe_to_big(limbs[3]), 1), BigShl(fe_to_big(limbs[4]), 1) >>,
                        0, bit_len_limb, r),
        bit_len_limb, N)

\* Rns::calculate_base_aux
calculate_base_aux(bit_len_limb, W, N) ==
    base_aux_of(from_big(modulus(W), NUMBER_OF_LIMBS, bit_len_limb, N).limbs,
                fe_to_big(FieldPow(2 % N, bit_len_limb, N)), bit_len_limb, N)

\* the worst-case convolution of construct's multiplication emulation:
\* t[k] sums a[i] * a[j] + p[i] * q[j] over the i, j < NUMBER_OF_LIMBS with
\* i + j = k
emulate_t(a, p, q, k) ==
    BigSum([i \in 1..NUMBER_OF_LIMBS |->
               IF k - (i - 1) >= 0 /\ k - (i - 1) < NUMBER_OF_LIMBS
               THEN BigAdd(BigMul(a[i], a[k - (i - 1) + 1]), BigMul(p[i], q[k - (i - 1) + 1]))
               ELSE BigZero])

\* the carries (v0, v1) of u0 and of u1 before the carry of u0 is added
emulate_carries(u0, u1, bit_len_limb) ==
    << BigShr(u0, 2 * bit_len_limb),
       BigShr(BigAdd(u1, BigShr(u0, 2 * bit_len_limb)), 2 * bit_len_limb) >>

\* the carries (v0, v1) both emulations take from t
emulate_v(t, bit_len_limb) ==
    emulate_carries(BigAdd(t[1], BigShl(t[2], bit_len_limb)),
                    BigAdd(t[3], BigShl(t[4], bit_len_limb)), bit_len_limb)

\* construct's emulation of the multiplication with the largest limbs
emulate_mul(a, p, q, bit_len_limb) ==
    emulate_v([k \in 1..(2 * NUMBER_OF_LIMBS - 1) |-> emulate_t(a, p, q, k - 1)],
              bit_len_limb)

\* construct's emulation of the reduction with the largest limbs
emulate_red(a, p, q, bit_len_limb) ==
    emulate_v([i \in 1..NUMBER_OF_LIMBS |-> BigAdd(a[i], BigMul(q, p[i]))], bit_len_limb)

Aborted == [ok |-> FALSE]

\* the Rns struct construct fills from its locals c
Rns(c) ==
    [ok |-> TRUE, W |-> c.W, N |-> c.N,
     bit_len_limb |-> c.bit_len_limb,
     bit_len_lookup |-> c.bit_len_lookup,
     right_shifter_r |-> c.right_shifter_r,
     right_shifter_2r |-> c.right_shifter_2r,
     left_shifter_r |-> c.left_shifter_r,
     left_shifter_2r |-> c.left_shifter_2r,
     left_shifter_3r |-> c.left_shifter_3r,
     wrong_modulus |-> c.wrong_modulus,
     native_modulus |-> c.native_modulus,
     binary_modulus |-> c.binary_modulus,
     crt_modulus |-> c.crt_modulus,
     base_aux |-> c.base_aux.integer,
     negative_wrong_modulus_decomposed |-> c.negative_wrong_modulus_decomposed,
     wrong_modulus_decomposed |-> c.wrong_modulus_decomposed,
     wrong_modulus_minus_one |-> c.wrong_modulus_minus_one,
     wrong_modulus_in_native_modulus |-> c.wrong_modulus_in_native_modulus,
     max_reduced_limb |-> c.max_reduced_limb,
     max_unreduced_limb |-> c.max_unreduced_limb,
     max_remainder |-> c.max_remainder,
     max_operand |-> c.max_operand,
     max_mul_quotient |-> c.max_mul_quotient,
     max_reducible_value |-> c.max_reducible_value,
     max_with_max_unreduced_limbs |-> c.max_with_max_unreduced_limbs,
     max_dense_value |-> c.max_dense_value,
     max_most_significant_reduced_limb |-> c.max_most_significant_reduced_limb,
     max_most_significant_operand_limb |-> c.max_most_significant_operand_limb,
     max_most_significant_unreduced_limb |-> c.max_most_significant_unreduced_limb,
     max_most_significant_mul_quotient_limb |-> c.max_most_significant_mul_quotient_limb,
     mul_v0_overflow |-> c.mul_v0_overflow,
     mul_v1_overflow |-> c.mul_v1_overflow,
     red_v0_overflow |-> c.red_v0_overflow,
     red_v1_overflow |-> c.red_v1_overflow,
     two_limb_mask |-> c.two_limb_mask]

\* the end of Rns::construct: the checks on the reduction of the integer
\* with the largest unreduced limbs
construct_checked(rns, reduction_result) ==
    IF reduction_result.panic THEN Aborted
    ELSE IF reduction_result.quotient.kind # "Short" THEN Aborted
    ELSE IF ~BigLt(fe_to_big(reduction_result.quotient.fe), rns.max_reduced_limb) THEN Aborted
    ELSE rns

construct_self_test(rns) ==
    construct_checked(rns,
        reduce(rns, new_from_limbs(rns,
            [i \in 1..NUMBER_OF_LIMBS |-> big_to_fe(rns.max_unreduced_limb, rns.N)])))

\* Rns::construct from its step-th group of statements up to the until-th,
\* c holding the locals bound so far, with ok = TRUE, or being Aborted when
\* an assert! (or a checked subtraction, or an unwrap) has failed on the way
RECURSIVE construct_from(_, _, _)
construct_from(step, until, c) ==
    IF ~c.ok \/ step = until THEN c
    ELSE
    CASE step = 1 ->
           construct_from(2, until, c @@
               [binary_modulus |-> BigShl(BigOne, c.bit_len_limb * NUMBER_OF_LIMBS),
                wrong_modulus |-> modulus(c.W),
                native_modulus |-> modulus(c.N)])
      [] step = 2 ->
           IF /\ BigGt(c.binary_modulus, c.wrong_modulus)
              /\ BigGt(c.binary_modulus, c.native_modulus)
              /\ BigGt(BigMul(c.binary_modulus, c.native_modulus),
                       BigMul(c.wrong_modulus, c.wrong_modulus))
           THEN construct_from(3, until, c @@
                    [two |-> 2 % c.N, two_inv |-> FieldInvert(2 % c.N, c.N)])
           ELSE Aborted
      [] step = 3 ->
           IF c.two_inv.is_some
           THEN construct_from(4, until, c @@
                    [right_shifter_r |-> FieldPow(c.two_inv.value, c.bit_len_limb, c.N),
                     right_shifter_2r |-> FieldPow(c.two_inv.value, 2 * c.bit_len_limb, c.N),
                     left_shifter_r |-> FieldPow(c.two, c.bit_len_limb, c.N),
                     left_shifter_2r |-> FieldPow(c.two, 2 * c.bit_len_limb, c.N),
                     left_shifter_3r |-> FieldPow(c.two, 3 * c.bit_len_limb, c.N),
                     wrong_modulus_in_native_modulus |->
                         big_to_fe(BigRem(c.wrong_modulus, c.native_modulus), c.N),
                     negative_wrong_modulus_decomposed |->
                         decompose(BigSub(c.binary_modulus, c.wrong_modulus),
                                   NUMBER_OF_LIMBS, c.bit_len_limb, c.N),
                     wrong_modulus_decomposed |->
                         decompose(c.wrong_modulus, NUMBER_OF_LIMBS, c.bit_len_limb, c.N),
                     wrong_modulus_minus_one |->
                         from_big(BigSub(c.wrong_modulus, BigOne),
                                  NUMBER_OF_LIMBS, c.bit_len_limb, c.N),
                     two_limb_mask |-> BigSub(BigShl(BigOne, c.bit_len_limb * 2), BigOne),
                     crt_modulus |-> BigMul(c.binary_modulus, c.native_modulus),
                     max_remainder |->
                         BigSub(BigShl(BigOne, BigBits(c.wrong_modulus)), BigOne)])
           ELSE Aborted
      [] step = 4 ->
           construct_from(5, until, c @@
               [pre_max_operand |->
                    BigSub(BigShl(BigOne, (BigBits(c.crt_modulus) \div 2) - 1), BigOne),
                pre_max_mul_quotient |->
                    BigDiv(BigSub(c.crt_modulus, c.max_remainder), c.wrong_modulus)])
      [] step = 5 ->
           construct_from(6, until, c @@
               [max_mul_quotient |->
                    BigSub(BigShl(BigOne, BigBits(c.pre_max_mul_quotient) - 1), BigOne)])
      [] step = 6 ->
           construct_from(7, until, c @@
               [max_operand |->
                    BigSub(BigShl(BigOne,
                               (BigBits(BigAdd(BigMul(c.max_mul_quotient, c.wrong_modulus),
                                               c.max_remainder)) \div 2) - 1),
                           BigOne),
                max_reduced_limb |-> BigSub(BigShl(BigOne, c.bit_len_limb), BigOne),
                max_unreduced_limb |->
                    BigSub(BigShl(BigOne, c.bit_len_limb + (c.bit_len_limb \div 2)), BigOne)])
      [] step = 7 ->
           IF /\ BigGt(c.crt_modulus, BigMul(c.pre_max_operand, c.pre_max_operand))
              /\ BigGt(c.pre_max_operand, c.wrong_modulus)
              /\ BigGt(c.crt_modulus,
                       BigAdd(BigMul(c.max_mul_quotient, c.wrong_modulus), c.max_remainder))
              /\ BigGt(c.max_mul_quotient, c.wrong_modulus)
              /\ BigLe(c.max_operand, c.pre_max_operand)
              /\ BigGt(c.max_operand, c.wrong_modulus)
              /\ BigGt(c.crt_modulus, BigMul(c.max_operand, c.max_operand))
              /\ BigGt(BigAdd(BigMul(c.max_mul_quotient, c.wrong_modulus), c.max_remainder),
                       BigMul(c.max_operand, c.max_operand))
           THEN construct_from(8, until, c @@
                    [max_most_significant_reduced_limb |->
                         BigShr(c.max_remainder, (NUMBER_OF_LIMBS - 1) * c.bit_len_limb),
                     max_most_significant_operand_limb |->
                         BigShr(c.max_operand, (NUMBER_OF_LIMBS - 1) * c.bit_len_limb),
                     max_most_significant_unreduced_limb |-> c.max_unreduced_limb,
                     max_most_significant_mul_quotient_limb |->
                         BigShr(c.max_mul_quotient, (NUMBER_OF_LIMBS - 1) * c.bit_len_limb)])
           ELSE Aborted
      [] step = 8 ->
           IF /\ BigBits(c.max_most_significant_reduced_limb) < c.bit_len_limb
              /\ BigBits(c.max_most_significant_operand_limb) < c.bit_len_limb
              /\ BigBits(c.max_most_significant_mul_quotient_limb) <= c.bit_len_limb
           THEN construct_from(9, until, c @@
                    [max_reducible_value |->
                         BigAdd(BigMul(c.max_reduced_limb, c.wrong_modulus), c.max_remainder),
                     max_with_max_unreduced_limbs |->
                         compose([i \in 1..4 |-> c.max_unreduced_limb], c.bit_len_limb)])
           ELSE Aborted
      [] step = 9 ->
           IF BigGt(c.max_reducible_value, c.max_with_max_unreduced_limbs)
           THEN construct_from(10, until, c @@
                    [max_dense_value |->
                         compose([i \in 1..4 |-> c.max_reduced_limb], c.bit_len_limb),
                     mul_v_max |->
                         emulate_mul(
                             [i \in 1..NUMBER_OF_LIMBS |->
                                 IF i < NUMBER_OF_LIMBS THEN c.max_reduced_limb
                                 ELSE c.max_most_significant_operand_limb],
                             [i \in 1..NUMBER_OF_LIMBS |->
                                 fe_to_big(c.negative_wrong_modulus_decomposed[i])],
                             [i \in 1..NUMBER_OF_LIMBS |->
                                 IF i < NUMBER_OF_LIMBS THEN c.max_reduced_limb
                                 ELSE c.max_most_significant_mul_quotient_limb],
                             c.bit_len_limb)])
           ELSE Aborted
      [] step = 10 ->
           IF /\ BigBits(c.mul_v_max[1]) >= c.bit_len_limb
              /\ BigBits(c.mul_v_max[2]) >= c.bit_len_limb
           THEN construct_from(11, until, c @@
                    [mul_v0_overflow |-> BigBits(c.mul_v_max[1]) - c.bit_len_limb,
                     mul_v1_overflow |-> BigBits(c.mul_v_max[2]) - c.bit_len_limb,
                     q_max |-> BigDiv(compose([i \in 1..4 |-> c.max_unreduced_limb],
                                              c.bit_len_limb),
                                      c.wrong_modulus)])
           ELSE Aborted
      [] step = 11 ->
           IF BigLt(c.q_max, BigShl(BigOne, c.bit_len_limb))
           THEN construct_from(12, until, c @@
                    [red_v_max |->
                         emulate_red(
                             [i \in 1..NUMBER_OF_LIMBS |-> c.max_unreduced_limb],
                             [i \in 1..NUMBER_OF_LIMBS |->
                                 fe_to_big(c.negative_wrong_modulus_decomposed[i])],
                             c.max_reduced_limb, c.bit_len_limb)])
           ELSE Aborted
      [] step = 12 ->
           IF /\ BigBits(c.red_v_max[1]) >= c.bit_len_limb
              /\ BigBits(c.red_v_max[2]) >= c.bit_len_limb
           THEN construct_from(13, until, c @@
                    [red_v0_overflow |-> BigBits(c.red_v_max[1]) - c.bit_len_limb,
                     red_v1_overflow |-> BigBits(c.red_v_max[2]) - c.bit_len_limb,
                     bit_len_lookup |-> c.bit_len_limb \div NUMBER_OF_LOOKUP_LIMBS])
           ELSE Aborted
      [] step = 13 ->
           IF c.bit_len_lookup * NUMBER_OF_LOOKUP_LIMBS = c.bit_len_limb
           THEN construct_from(14, until, c @@
                    [base_aux |-> calculate_base_aux(c.bit_len_limb, c.W, c.N)])
           ELSE Aborted
      [] step = 14 ->
           IF /\ ~c.base_aux.panic
              /\ BigRem(value(c.base_aux.integer), c.wrong_modulus) = BigZero
              /\ BigGt(value(c.base_aux.integer), c.max_remainder)
              /\ \A i \in 1..NUMBER_OF_LIMBS :
                     BigGe(fe_to_big(c.base_aux.integer.limbs[i]),
                           IF i = NUMBER_OF_LIMBS THEN c.max_most_significant_reduced_limb
                           ELSE c.max_reduced_limb)
           THEN construct_from(15, until, Rns(c))
           ELSE Aborted

\* the end of Rns::construct for the struct the statements before it built
construct_built(rns) == IF rns.ok THEN construct_self_test(rns) ELSE Aborted

\* Rns::construct: the bundle, with ok = TRUE, or Aborted
construct(bit_len_limb, W, N) ==
    construct_built(
        construct_from(10, 15,
            construct_from(5, 10,
                construct_from(1, 5,
                    [ok |-> TRUE, bit_len_limb |-> bit_len_limb, W |-> W, N |-> N]))))

(***************************************************************************)
(* Assigned integers of the integer chip and IntegerChip::_sub             *)
(***************************************************************************)
\* AssignedLimb: a witness value with its declared maximum
AssignedLimb(v, max_val) == [value |-> v, max_val |-> max_val]

\* AssignedInteger: four assigned limbs and the native value
AssignedInteger(limbs, native_value) == [limbs |-> limbs, native_value |-> native_value]

\* AssignedInteger::max_vals
max_vals(a) == [i \in 1..NUMBER_OF_LIMBS |-> a.limbs[i].max_val]

\* AssignedLimb::add_fe: the maximum after adding a constant
add_fe(limb, fe) == BigAdd(limb.max_val, fe_to_big(fe))

\* MainGateInstructions::sub_with_constant: a - b + constant in N
sub_with_constant(a, b, constant, N) == FieldAdd(FieldSub(a, b, N), constant, N)

\* IntegerChip::_range_assign_integer: the limbs of integer with the maxima
\* of their range checks
range_assign_integer(rns, integer, most_significant_limb_bit_len) ==
    LET max_val == BigSub(BigShl(BigOne, rns.bit_len_limb), BigOne)
        top_max_val == BigSub(BigShl(BigOne, most_significant_limb_bit_len), BigOne)
    IN  AssignedInteger(
            << AssignedLimb(integer.limbs[1], max_val),
               AssignedLimb(integer.limbs[2], max_val),
               AssignedLimb(integer.limbs[3], max_val),
               AssignedLimb(integer.limbs[4], top_max_val) >>,
            native(integer, rns.N))

\* the limb idx of the result of IntegerChip::_sub
sub_limb(rns, a, b, aux, idx) ==
    AssignedLimb(sub_with_constant(a.limbs[idx].value, b.limbs[idx].value,
                                   aux.limbs[idx], rns.N),
                 add_fe(a.limbs[idx], aux.limbs[idx]))

\* IntegerChip::_sub from aux on
sub_with_aux(rns, a, b, aux) ==
    [aux |-> aux,
     c |-> AssignedInteger(
               << sub_limb(rns, a, b, aux, 1), sub_limb(rns, a, b, aux, 2),
                  sub_limb(rns, a, b, aux, 3), sub_limb(rns, a, b, aux, 4) >>,
               sub_with_constant(a.native_value, b.native_value, native(aux, rns.N), rns.N))]

\* IntegerChip::_sub: the aux it took and the assigned result
sub(rns, a, b) == sub_with_aux(rns, a, b, make_aux(rns, max_vals(b)))

(***************************************************************************)
(* The chip operations as the circuit runs them: witnesses may be absent,  *)
(* every main-gate or range call appends a row at the offset of the region *)
(* and may fail, and `?` hands the failure to the caller.                  *)
(***************************************************************************)

\* the region after k further rows have been assigned at its offset
advance(region, k) ==
    [offset |-> region.offset + k,
     rows |-> region.rows \o [i \in 1..k |-> region.offset + i - 1]]

\* no call fails; otherwise fail = [at |-> k, error |-> e]: the k-th call of
\* the operation returns Err(e)
NoFail == [at |-> 0]

\* Result<T, Error>, with the region as the operation leaves it
Ok(v, region) == [ok |-> TRUE, value |-> v, region |-> region]
Err(g) == [ok |-> FALSE, error |-> g.error, region |-> g.region]

\* the calls numbered first .. first + count - 1 of an operation, each
\* followed by `?`: they assign one row each until one of them fails
gates(region, fail, first, count) ==
    IF fail.at >= first /\ fail.at < first + count
    THEN [ok |-> FALSE, error |-> fail.error, region |-> advance(region, fail.at - first)]
    ELSE [ok |-> TRUE, region |-> advance(region, count)]

\* a faulty limb witness that stands in zero for an absent integer
limb_or_zero(integer, i) ==
    IF integer.is_some THEN Some(integer.value.limbs[i]) ELSE Some(0)

\* integer.as_ref().map(|e| e.limb_value(i)), the limb witness of an integer
\* that may be absent
limb_of(integer, i) ==
    IF integer.is_some THEN Some(integer.value.limbs[i]) ELSE None

\* a faulty native value that is the lowest limb of the integer
native_of_low_limb(rns, integer) ==
    IF integer.is_some THEN Some(integer.value.limbs[1]) ELSE None

\* integer.as_ref().map(|integer| integer.native())
native_of(rns, integer) ==
    IF integer.is_some THEN Some(native(integer.value, rns.N)) ELSE None

\* the AssignedInteger of an integer that may be absent
assigned(rns, integer, max_val, top_max_val) ==
    AssignedInteger(
        << AssignedLimb(limb_of(integer, 1), max_val), AssignedLimb(limb_of(integer, 2), max_val),
           AssignedLimb(limb_of(integer, 3), max_val), AssignedLimb(limb_of(integer, 4), top_max_val) >>,
        native_of(rns, integer))

\* rns.limb_max_val and rns.bit_len_prenormalized
limb_max_val(rns) == rns.max_reduced_limb
bit_len_prenormalized(rns) == BigBits(rns.wrong_modulus)

\* a faulty _assign_integer that goes on after its first combine has failed
assign_integer_past_error(rns, integer, region, fail) ==
    Ok(assigned(rns, integer, limb_max_val(rns), limb_max_val(rns)), advance(region, 2))

\* IntegerChip::_assign_integer: two combine calls, then the limbs with
\* limb_max_val and the native value
assign_integer(rns, integer, region, fail) ==
    LET g == gates(region, fail, 1, 2)
    IN  IF ~g.ok THEN Err(g)
        ELSE Ok(assigned(rns, integer, limb_max_val(rns), limb_max_val(rns)), g.region)

\* IntegerChip::_range_assign_integer of an integer that may be absent: four
\* range_value calls and two combine calls, numbered from first
range_assign(rns, integer, most_significant_limb_bit_len, region, fail, first) ==
    LET g == gates(region, fail, first, 6)
    IN  IF most_significant_limb_bit_len > rns.bit_len_limb THEN Panic
        ELSE IF ~g.ok THEN Err(g)
        ELSE Ok(assigned(rns, integer,
                         BigSub(BigShl(BigOne, rns.bit_len_limb), BigOne),
                         BigSub(BigShl(BigOne, most_significant_limb_bit_len), BigOne)),
                g.region)

\* main_gate.sub_with_constant on witnesses that may be absent
sub_value(a, b, constant, N) ==
    IF a.is_some /\ b.is_some THEN Some(sub_with_constant(a.value, b.value, constant, N))
    ELSE None

\* IntegerChip::_sub: one limb of the result, the witnesses possibly absent
sub_limb_of(rns, a, b, aux, idx) ==
    AssignedLimb(sub_value(a.limbs[idx].value, b.limbs[idx].value, aux.limbs[idx], rns.N),
                 add_fe(a.limbs[idx], aux.limbs[idx]))

\* a faulty _sub that assigns its rows from the top of the region again
sub_rewinding(rns, a, b, aux, g) ==
    IF ~g.ok THEN Err(g)
    ELSE Ok(AssignedInteger(
                << sub_limb_of(rns, a, b, aux, 1), sub_limb_of(rns, a, b, aux, 2),
                   sub_limb_of(rns, a, b, aux, 3), sub_limb_of(rns, a, b, aux, 4) >>,
                sub_value(a.native_value, b.native_value, native(aux, rns.N), rns.N)),
            [offset |-> NUMBER_OF_LIMBS + 1,
             rows |-> g.region.rows \o [i \in 1..(NUMBER_OF_LIMBS + 1) |-> i - 1]])

\* IntegerChip::_sub after make_aux and its five sub_with_constant calls
sub_with(rns, a, b, aux, g) ==
    IF ~g.ok THEN Err(g)
    ELSE Ok(AssignedInteger(
                << sub_limb_of(rns, a, b, aux, 1), sub_limb_of(rns, a, b, aux, 2),
                   sub_limb_of(rns, a, b, aux, 3), sub_limb_of(rns, a, b, aux, 4) >>,
                sub_value(a.native_value, b.native_value, native(aux, rns.N), rns.N)),
            g.region)

\* IntegerChip::_sub in a region: a sub_with_constant call for each limb and
\* one for the native value
sub_in(rns, a, b, region, fail) ==
    sub_with(rns, a, b, make_aux(rns, max_vals(b)), gates(region, fail, 1, NUMBER_OF_LIMBS + 1))

\* AssignedInteger::integer: the Integer of the limb witnesses, if known
integer_of(rns, a) ==
    IF \A i \in 1..NUMBER_OF_LIMBS : a.limbs[i].value.is_some
    THEN Some(new_from_limbs(rns, [i \in 1..NUMBER_OF_LIMBS |-> a.limbs[i].value.value]))
    ELSE None

\* IntegerChip::inert_inv_range_tune
inert_inv_range_tune(rns) ==
    bit_len_prenormalized(rns) - (rns.bit_len_limb * (NUMBER_OF_LIMBS - 1)) + 1

\* _invert: the match on self.rns.invert(&a), inv the outcome of the latter
inv_or_one_of(rns, inv) ==
    IF "panic" \in DOMAIN inv THEN Panic
    ELSE IF inv.is_some THEN Some(inv.value)
    ELSE Some(new_from_big(rns, BigOne))

\* _invert: inv_or_one for the Integer a of the operand, if known
inv_or_one(rns, a) ==
    IF a.is_some THEN inv_or_one_of(rns, invert(rns, a.value)) ELSE None

\* IntegerChip::mul of two assigned integers with the Integers a and b, if
\* known: the assigned result of Rns::mul, its gate calls taken as one
mul_in_with(rns, r, g) ==
    IF ~g.ok THEN Err(g)
    ELSE IF ~r.is_some THEN Ok(assigned(rns, None, limb_max_val(rns), limb_max_val(rns)), g.region)
    ELSE IF r.value.panic THEN Panic
    ELSE Ok(assigned(rns, Some(r.value.result), limb_max_val(rns), limb_max_val(rns)), g.region)

mul_in(rns, a, b, region, fail, first) ==
    mul_in_with(rns,
                IF a.is_some /\ b.is_some THEN Some(mul(rns, a.value, b.value)) ELSE None,
                gates(region, fail, first, 1))

\* a faulty condition that hands back the low limb of the product itself
invert_condition_kept(rns, x) ==
    IF x.is_some THEN Some(x.value) ELSE None

\* _invert: cond = a_mul_inv.limbs[0].value().map(|a_mul_inv| one - a_mul_inv)
invert_condition(rns, x) ==
    IF x.is_some THEN Some(FieldSub(1, x.value, rns.N)) ELSE None

\* AssignedCondition::new(cond_cell, cond)
AssignedCondition(cond) == [value |-> cond]

\* _invert after its assert_zero and combine calls: (inv_or_one, cond)
invert_cond(rns, inv, a_mul_inv, g) ==
    IF ~g.ok THEN Err(g)
    ELSE Ok([inv |-> inv,
             cond |-> AssignedCondition(invert_condition(rns, a_mul_inv.limbs[1].value))],
            g.region)

\* _invert after self.mul: three assert_zero calls and six combine calls
invert_product(rns, inv, a_mul_inv, fail) ==
    IF "panic" \in DOMAIN a_mul_inv THEN Panic
    ELSE IF ~a_mul_inv.ok THEN a_mul_inv
    ELSE invert_cond(rns, inv, a_mul_inv.value, gates(a_mul_inv.region, fail, 8, 9))

\* _invert after range_assign_integer: self.mul(a, inv_or_one)
invert_assigned(rns, a, witness, inv, fail) ==
    IF "panic" \in DOMAIN inv THEN Panic
    ELSE IF ~inv.ok THEN inv
    ELSE invert_product(rns, inv.value, mul_in(rns, a, witness, inv.region, fail, 7), fail)

\* _invert from inv_or_one on: range_assign_integer with the range tune
invert_witness(rns, a, witness, region, fail) ==
    IF "panic" \in DOMAIN witness THEN Panic
    ELSE invert_assigned(rns, a, witness,
             range_assign(rns, witness, inert_inv_range_tune(rns), region, fail, 1), fail)

\* MainGateInstructions::combine with CombinationOption::SingleLinerMul on
\* the terms (a, sa), (b, sb), (c, sc), (d, sd): the row satisfies
\* a * sa + b * sb + a * b + c * sc + d * sd + constant = 0 in N
combine(a, sa, b, sb, c, sc, d, sd, constant, N) ==
    FieldAdd(FieldAdd(FieldAdd(FieldMul(a, sa, N), FieldMul(b, sb, N), N),
                      FieldAdd(FieldMul(c, sc, N), FieldMul(d, sd, N), N), N),
             FieldAdd(FieldMul(a, b, N), constant, N), N) = 0

\* a faulty constraint system without the row on inv_or_one.limbs[0]
invert_constraints_loose(x, inv, N) ==
    /\ combine(x, 0, x, 0, x, FieldNeg(1, N), 0, 0, 0, N)
    /\ \A i \in 1..(NUMBER_OF_LIMBS - 1) :
           combine(x, 0, inv[i + 1], FieldNeg(1, N), 0, 0, 0, 0, 0, N)

\* _invert: the combine calls on x = a_mul_inv.limbs[0] and the limbs inv
\* of inv_or_one, Term::Zero a term of value and coefficient zero
invert_constraints(x, inv, N) ==
    /\ combine(x, 0, x, 0, x, FieldNeg(1, N), 0, 0, 0, N)
    /\ \A i \in 1..(NUMBER_OF_LIMBS - 1) :
           combine(x, 0, inv[i + 1], FieldNeg(1, N), 0, 0, 0, 0, 0, N)
    /\ combine(x, FieldNeg(1, N), inv[1], FieldNeg(1, N), 0, 0, 0, 0, 1, N)

\* IntegerChip::_invert of the assigned integer a
invert_in(rns, a, region, fail) ==
    invert_witness(rns, integer_of(rns, a), inv_or_one(rns, integer_of(rns, a)), region, fail)

(***************************************************************************)
(* The state machine: a configuration is constructed once, then callers    *)
(* invoke the operations of the bundle; call and ret record the arguments   *)
(* and the outcome of the invocation.                                       *)
(***************************************************************************)
VARIABLES config, pc, rns, acc, call, ret, region

vars == << config, pc, rns, acc, call, ret, region >>

\* the configurations explored: (bit_len_limb, wrong modulus, native modulus)
Configs ==
    { [bit_len_limb |-> 8, W |-> 334128071, N |-> 210667133],
      [bit_len_limb |-> 8, W |-> 358746901, N |-> 216176399],
      [bit_len_limb |-> 4, W |-> 334128071, N |-> 210667133],
      [bit_len_limb |-> 7, W |-> 13, N |-> 17],
      [bit_len_limb |-> 12, W |-> 358746901, N |-> 216176399],
      [bit_len_limb |-> 4, W |-> 13, N |-> 210667133],
      [bit_len_limb |-> 8, W |-> 334128071, N |-> 16777213],
      [bit_len_limb |-> 8, W |-> 334128071, N |-> 402653189] }

\* inputs lie within Spread of the values where the behaviour changes
Spread == 1

Near(c) ==
    { BigAdd(c, BigFromInt(d)) : d \in 0..Spread }
    \cup { BigSub(c, BigFromInt(d)) : d \in { e \in 0..Spread : BigGe(c, BigFromInt(e)) } }

\* values handed to new_from_big
ValueInputs ==
    Near(BigZero) \cup Near(rns.wrong_modulus) \cup Near(rns.max_operand)
    \cup { BigShr(rns.wrong_modulus, 1), BigShl(BigOne, rns.bit_len_limb),
           rns.max_dense_value }

IntegersByValue == { new_from_big(rns, e) : e \in ValueInputs }

\* limbs handed to new_from_limbs
LimbInputs ==
    { 0 } \cup { big_to_fe(BigSub(rns.max_unreduced_limb, BigFromInt(d)), rns.N) : d \in 0..Spread }

IntegersByLimbs ==
    { new_from_limbs(rns, <<l0, l1, l2, l3>>) :
        l0 \in LimbInputs, l1 \in LimbInputs, l2 \in LimbInputs, l3 \in LimbInputs }

\* integers with a limb above max_unreduced_limb: a top limb around the one
\* where the quotient of reduce reaches 2^bit_len_limb, and a second limb
\* with which u_0 of the residues reaches the native modulus
IntegersBeyondLimbs ==
    { new_from_limbs(rns, <<0, 0, 0,
          big_to_fe(BigAdd(BigShr(rns.wrong_modulus, 2 * rns.bit_len_limb), BigFromInt(d)), rns.N)>>) :
          d \in 0..Spread }
    \cup { new_from_limbs(rns, <<0,
          big_to_fe(BigAdd(BigShr(rns.native_modulus, rns.bit_len_limb),
                           BigAdd(BigShl(BigOne, rns.bit_len_limb), BigOne)), rns.N), 0, 0>>) }

NoCall == [op |-> "none"]

\* the region before any row is assigned: the cursor at row 0
NoRows == [offset |-> 0, rows |-> << >>]

Init ==
    /\ config \in Configs
    /\ pc = "new"
    /\ rns = Aborted
    /\ acc = NoCall
    /\ call = NoCall
    /\ ret = NoCall
    /\ region = NoRows

\* a faulty construction that stores the negated modulus where base_aux
\* belongs, after the checks on base_aux have passed
ConstructMixedUp ==
    /\ pc = "new"
    /\ rns' = LET built == construct(config.bit_len_limb, config.W, config.N)
              IN  IF built.ok
                  THEN [built EXCEPT !.base_aux =
                           Integer(built.negative_wrong_modulus_decomposed, built.bit_len_limb)]
                  ELSE built
    /\ pc' = IF rns'.ok THEN "ready" ELSE "aborted"
    /\ UNCHANGED << config, acc, call, ret, region >>

\* a faulty construction that hands its bundle to the caller whether or not
\* the checks have passed
ConstructAnyway ==
    /\ pc = "new"
    /\ rns' = construct(config.bit_len_limb, config.W, config.N)
    /\ pc' = "ready"
    /\ UNCHANGED << config, acc, call, ret, region >>

\* a faulty construction whose max_operand is two bits longer than the
\* checked one
ConstructWideOperand ==
    /\ pc = "new"
    /\ rns' = LET built == construct(config.bit_len_limb, config.W, config.N)
              IN  IF built.ok
                  THEN [built EXCEPT !.max_operand =
                           BigSub(BigShl(BigOne, BigBits(built.max_operand) + 2), BigOne)]
                  ELSE built
    /\ pc' = IF rns'.ok THEN "ready" ELSE "aborted"
    /\ UNCHANGED << config, acc, call, ret, region >>

\* a faulty construction whose max_operand is one bit shorter than the
\* checked one
ConstructShortOperand ==
    /\ pc = "new"
    /\ rns' = LET built == construct(config.bit_len_limb, config.W, config.N)
              IN  IF built.ok
                  THEN [built EXCEPT !.max_operand = BigShr(built.max_operand, 1)]
                  ELSE built
    /\ pc' = IF rns'.ok THEN "ready" ELSE "aborted"
    /\ UNCHANGED << config, acc, call, ret, region >>

\* a faulty construction that hands out a base_aux whose top limb is zero
ConstructZeroAux ==
    /\ pc = "new"
    /\ rns' = LET built == construct(config.bit_len_limb, config.W, config.N)
              IN  IF built.ok
                  THEN [built EXCEPT !.base_aux.limbs[NUMBER_OF_LIMBS] = 0]
                  ELSE built
    /\ pc' = IF rns'.ok THEN "ready" ELSE "aborted"
    /\ UNCHANGED << config, acc, call, ret, region >>

\* Rns::construct(bit_len_limb) for the fields W and N
Construct ==
    /\ pc = "new"
    /\ rns' = construct(config.bit_len_limb, config.W, config.N)
    /\ pc' = IF rns'.ok THEN "ready" ELSE "aborted"
    /\ UNCHANGED << config, acc, call, ret, region >>

\* Integer::from_big(e, number_of_limbs, bit_len).value()
FromBigValue ==
    /\ pc = "ready"
    /\ \E e \in ValueInputs \cup Near(rns.max_dense_value) \cup Near(rns.max_reduced_limb),
          shape \in { <<NUMBER_OF_LIMBS, rns.bit_len_limb>>,
                      <<NUMBER_OF_LOOKUP_LIMBS, rns.bit_len_lookup>> } :
          LET integer == from_big(e, shape[1], shape[2], rns.N)
          IN  /\ call' = [op |-> "from_big", e |-> e,
                          number_of_limbs |-> shape[1], bit_len |-> shape[2]]
              /\ ret' = [integer |-> integer, value |-> value(integer)]
    /\ pc' = "returned"
    /\ UNCHANGED << config, rns, acc, region >>

Reduce ==
    /\ pc = "ready"
    /\ \E a \in IntegersByLimbs \cup IntegersByValue \cup IntegersBeyondLimbs :
          /\ call' = [op |-> "reduce", a |-> a]
          /\ ret' = reduce(rns, a)
    /\ pc' = "returned"
    /\ UNCHANGED << config, rns, acc, region >>

Mul ==
    /\ pc = "ready"
    /\ \E a \in IntegersByValue, b \in IntegersByValue :
          /\ call' = [op |-> "mul", a |-> a, b |-> b]
          /\ ret' = mul(rns, a, b)
    /\ pc' = "returned"
    /\ UNCHANGED << config, rns, acc, region >>

Invert ==
    /\ pc = "ready"
    /\ \E a \in IntegersByValue :
          /\ call' = [op |-> "invert", a |-> a]
          /\ ret' = invert(rns, a)
    /\ pc' = "returned"
    /\ UNCHANGED << config, rns, acc, region >>

Div ==
    /\ pc = "ready"
    /\ \E a \in IntegersByValue, b \in IntegersByValue :
          /\ call' = [op |-> "div", a |-> a, b |-> b]
          /\ ret' = div(rns, a, b)
    /\ pc' = "returned"
    /\ UNCHANGED << config, rns, acc, region >>

\* Rns::compare_to_modulus(integer)
CompareToModulus ==
    /\ pc = "ready"
    /\ \E a \in IntegersByValue \cup IntegersBeyondLimbs :
          /\ call' = [op |-> "compare_to_modulus", a |-> a]
          /\ ret' = compare_to_modulus(rns, a)
    /\ pc' = "returned"
    /\ UNCHANGED << config, rns, acc, region >>

\* the largest declared maximum among the limbs of an assigned integer
RECURSIVE MaxValOf(_, _)
MaxValOf(a, i) ==
    IF i > NUMBER_OF_LIMBS THEN BigZero
    ELSE LET rest == MaxValOf(a, i + 1)
         IN  IF BigGe(a.limbs[i].max_val, rest) THEN a.limbs[i].max_val ELSE rest

\* the chain of subtractions stops once a declared maximum is longer than
\* MaxValBits bits
MaxValBits == 28

\* freshly range-checked integers handed to the chip
FreshAssigned ==
    { range_assign_integer(rns, new_from_big(rns, e), rns.bit_len_limb) :
        e \in { BigZero, rns.max_dense_value } }

\* IntegerChip::_range_assign_integer: the caller's first assigned integer
RangeAssign ==
    /\ pc = "ready"
    /\ \E e \in { BigZero, BigSub(rns.wrong_modulus, BigOne), rns.max_dense_value } :
          /\ call' = [op |-> "range_assign", e |-> e]
          /\ acc' = range_assign_integer(rns, new_from_big(rns, e), rns.bit_len_limb)
    /\ ret' = NoCall
    /\ pc' = "chip"
    /\ UNCHANGED << config, rns, region >>

\* IntegerChip::_sub(a, b); the caller keeps the result of acc - acc as its
\* new acc
Sub ==
    /\ pc = "chip"
    /\ BigBits(MaxValOf(acc, 1)) <= MaxValBits
    /\ \E a \in FreshAssigned \cup {acc}, b \in FreshAssigned \cup {acc} :
          /\ call' = [op |-> "sub", a |-> a, b |-> b]
          /\ ret' = sub(rns, a, b)
          /\ acc' = IF a = acc /\ b = acc THEN ret'.c ELSE acc
    /\ UNCHANGED << config, pc, rns, region >>

Next ==
    \/ Construct \/ FromBigValue \/ Reduce \/ Mul \/ Invert \/ Div \/ CompareToModulus
    \/ RangeAssign \/ Sub

Spec == Init /\ [][Next]_vars

(***************************************************************************)
(* The chip in a region: after the construction the caller runs chip       *)
(* operations one after the other against one region and one offset; acc   *)
(* is the integer assigned last.  A failed call ends the synthesis.        *)
(***************************************************************************)

\* the callers stop assigning once the offset has reached MaxOffset
MaxOffset == 7

\* the errors a main-gate or range call can return
Errors == { "Synthesis", "NotEnoughRowsAvailable" }

\* which of the n calls of an operation fails, if any, and with which error
Fails(n) == { NoFail } \cup { [at |-> k, error |-> e] : k \in 1..n, e \in Errors }

\* the outcome r of the call c: the region and acc as the call leaves them
Returns(c, r) ==
    /\ call' = c
    /\ ret' = r
    /\ region' = IF "panic" \in DOMAIN r THEN region ELSE r.region
    /\ acc' = IF "panic" \in DOMAIN r \/ ~r.ok THEN acc
              ELSE IF c.op = "invert" THEN r.value.inv
              ELSE r.value
    /\ pc' = IF "panic" \in DOMAIN r THEN "aborted"
             ELSE IF r.ok THEN "region" ELSE "failed"
    /\ UNCHANGED << config, rns >>

\* IntegerChip::_assign_integer(region, integer, offset)
AssignInteger ==
    /\ pc \in { "ready", "region" }
    /\ region.offset < MaxOffset
    /\ \E integer \in { None, Some(new_from_big(rns, rns.wrong_modulus)),
                        Some(new_from_big(rns, BigSub(rns.wrong_modulus, BigOne))) },
          fail \in Fails(2) :
          Returns([op |-> "assign_integer", integer |-> integer,
                   offset |-> region.offset, fail |-> fail],
                  assign_integer(rns, integer, region, fail))

\* IntegerChip::_range_assign_integer(region, integer, bit_len_limb, offset)
RangeAssignInteger ==
    /\ pc \in { "ready", "region" }
    /\ region.offset < MaxOffset
    /\ \E integer \in { None, Some(new_from_big(rns, BigZero)),
                        Some(new_from_big(rns, BigFromInt(2))) },
          fail \in Fails(6) :
          Returns([op |-> "range_assign_integer", integer |-> integer,
                   offset |-> region.offset, fail |-> fail],
                  range_assign(rns, integer, rns.bit_len_limb, region, fail, 1))

\* IntegerChip::_sub(region, acc, acc, offset)
SubIntegers ==
    /\ pc = "region"
    /\ region.offset < MaxOffset
    /\ \E fail \in Fails(NUMBER_OF_LIMBS + 1) :
          Returns([op |-> "sub", a |-> acc, b |-> acc,
                   offset |-> region.offset, fail |-> fail],
                  sub_in(rns, acc, acc, region, fail))

\* IntegerChip::_invert(region, acc, offset)
InvertInteger ==
    /\ pc = "region"
    /\ region.offset < MaxOffset
    /\ \E fail \in Fails(16) :
          Returns([op |-> "invert", a |-> acc,
                   offset |-> region.offset, fail |-> fail],
                  invert_in(rns, acc, region, fail))

\* the values a prover assigns to a cell
CellValues == { 0, 1, 2, rns.N - 1 }

\* the rows _invert has emitted, checked against the values of the cells of
\* a_mul_inv.limbs[0] and inv_or_one.limbs, which the prover chooses
VerifyInvert ==
    /\ pc = "region"
    /\ call.op = "invert"
    /\ \E x \in CellValues, inv \in [1..NUMBER_OF_LIMBS -> CellValues] :
          /\ call' = [op |-> "verify_invert", x |-> x, inv |-> inv]
          /\ ret' = [satisfied |-> invert_constraints(x, inv, rns.N)]
    /\ pc' = "verified"
    /\ UNCHANGED << config, rns, acc, region >>

ChipNext ==
    \/ Construct \/ AssignInteger \/ RangeAssignInteger \/ SubIntegers \/ InvertInteger
    \/ VerifyInvert

ChipSpec == Init /\ [][ChipNext]_vars

(***************************************************************************)
(* Rns::make_aux step by step: acc holds the locals of the running call,   *)
(* the limb index i, aux, shift and max_shift; every step is one test of   *)
(* the guard of the while loop.  The code runs the loop without a pause,   *)
(* hence the weak fairness of the step.                                    *)
(***************************************************************************)

\* the counter shift of make_aux is followed up to MaxShift
MaxShift == 40

\* the max_vals handed to make_aux: one limb with a maximum of one or of two
\* limbs' length, the other limbs with a maximum of zero or of two limbs'
\* length
MaxValInputs ==
    { [i \in 1..NUMBER_OF_LIMBS |-> IF i = k THEN v ELSE w] :
        k \in 1..NUMBER_OF_LIMBS,
        v \in { BigOne, BigShl(BigOne, 2 * rns.bit_len_limb) },
        w \in { BigZero, BigShl(BigOne, 2 * rns.bit_len_limb) } }

\* Rns::make_aux(max_vals) up to the first test of the loop guard
MakeAux ==
    /\ pc = "ready"
    /\ \E vals \in MaxValInputs :
          call' = [op |-> "make_aux", max_vals |-> vals]
    /\ acc' = [i |-> 0, aux |-> fe_to_big(rns.base_aux.limbs[1]), shift |-> 1, max_shift |-> 0]
    /\ ret' = NoCall
    /\ pc' = "make_aux"
    /\ UNCHANGED << config, rns, region >>

\* one test of while max_val > aux: the body of the loop, or the next limb
\* of the for loop, or the end of make_aux
MakeAuxStep ==
    /\ pc = "make_aux"
    /\ IF BigGt(call.max_vals[acc.i + 1], acc.aux)
       THEN /\ acc' = [acc EXCEPT !.aux = BigShl(@, 1),
                                  !.max_shift = Max2(acc.shift, @),
                                  !.shift = Min2(@ + 1, MaxShift)]
            /\ UNCHANGED << pc, ret >>
       ELSE IF acc.i + 1 < NUMBER_OF_LIMBS
       THEN /\ acc' = [acc EXCEPT !.i = @ + 1,
                                  !.aux = fe_to_big(rns.base_aux.limbs[acc.i + 2]),
                                  !.shift = 1]
            /\ UNCHANGED << pc, ret >>
       ELSE /\ ret' = make_aux_shifted(rns, acc.max_shift)
            /\ pc' = "returned"
            /\ UNCHANGED acc
    /\ UNCHANGED << config, rns, call, region >>

AuxNext == Construct \/ MakeAux \/ MakeAuxStep

AuxSpec == Init /\ [][AuxNext]_vars /\ WF_vars(MakeAuxStep)

(***************************************************************************)
(* Properties                                                              *)
(***************************************************************************)
InRemainderRange(a) == BigLe(value(a), rns.max_remainder)
InOperandRange(a) == BigLe(value(a), rns.max_operand)
ReducesTo(x, r) == BigRem(x, rns.wrong_modulus) = r

\* C1: for every x < 2^(bit_len * n), decompose yields n limbs each below
\* 2^bit_len and compose gives x back, for the four limbs of bit_len_limb bits
\* and for the lookup limbs of one limb alike
C1_RoundTrip ==
    (call.op = "from_big"
     /\ BigLt(call.e, BigShl(BigOne, call.bit_len * call.number_of_limbs)))
    => /\ Len(ret.integer.limbs) = call.number_of_limbs
       /\ \A i \in 1..call.number_of_limbs : ret.integer.limbs[i] < 2 ^ call.bit_len
       /\ ret.value = call.e

C1_Witness ==
    /\ call.op = "from_big"
    /\ call.bit_len = rns.bit_len_lookup
    /\ call.e = rns.max_reduced_limb
    /\ ret.integer.limbs = <<3, 3, 3, 3>>
    /\ ret.value = call.e

\* C2: reduce of an Integer whose limbs are each at most max_unreduced_limb
\* returns a result of value a.value() mod wrong_modulus
C2_ReduceCorrect ==
    (call.op = "reduce"
     /\ \A i \in 1..NUMBER_OF_LIMBS :
            BigLe(fe_to_big(call.a.limbs[i]), rns.max_unreduced_limb))
    => /\ ~ret.panic
       /\ ReducesTo(value(call.a), value(ret.result))

C2_Witness ==
    /\ call.op = "reduce"
    /\ \A i \in 1..NUMBER_OF_LIMBS : fe_to_big(call.a.limbs[i]) = rns.max_unreduced_limb
    /\ ~ret.panic
    /\ value(ret.result) # value(call.a)
    /\ ReducesTo(value(call.a), value(ret.result))

\* C3: mul of two Integers of value at most max_operand returns a result
\* of value (a.value() * b.value()) mod wrong_modulus
C3_MulCorrect ==
    (call.op = "mul" /\ InOperandRange(call.a) /\ InOperandRange(call.b))
    => /\ ~ret.panic
       /\ ReducesTo(BigMul(value(call.a), value(call.b)), value(ret.result))

C3_Witness ==
    /\ call.op = "mul"
    /\ value(call.a) = rns.max_operand
    /\ value(call.b) = rns.max_operand
    /\ ~ret.panic
    /\ ReducesTo(BigMul(value(call.a), value(call.b)), value(ret.result))

\* C4: for operands of value at most max_operand the quotient and the
\* result of mul satisfy a * b = quotient * wrong_modulus + result over the
\* integers with result < wrong_modulus, so a product below wrong_modulus
\* has quotient 0 and is its own result
C4_MulWitnesses ==
    (call.op = "mul" /\ InOperandRange(call.a) /\ InOperandRange(call.b))
    => /\ ~ret.panic
       /\ BigMul(value(call.a), value(call.b))
            = BigAdd(BigMul(value(ret.quotient.integer), rns.wrong_modulus),
                     value(ret.result))
       /\ BigLt(value(ret.result), rns.wrong_modulus)
       /\ BigLt(BigMul(value(call.a), value(call.b)), rns.wrong_modulus)
            => /\ value(ret.quotient.integer) = BigZero
               /\ value(ret.result) = BigMul(value(call.a), value(call.b))

C4_Witness ==
    /\ call.op = "mul"
    /\ value(call.a) = BigOne
    /\ value(call.b) = BigOne
    /\ ~ret.panic
    /\ value(ret.quotient.integer) = BigZero
    /\ value(ret.result) = BigOne

C6_InvertZero ==
    (call.op = "invert" /\ value(call.a) = BigZero) => ret = None

C6_Witness ==
    /\ call.op = "invert"
    /\ value(call.a) = BigZero
    /\ ret = None

C8_DivZero ==
    (call.op = "div" /\ value(call.b) = BigZero) => ret = None

C8_Witness ==
    /\ call.op = "div"
    /\ value(call.a) = rns.max_dense_value
    /\ value(call.b) = BigZero
    /\ ret = None

\* C9: in every bundle construct returns (the state it is returned in has
\* pc = "ready"), base_aux.value() is a multiple of
\* wrong_modulus above max_remainder, so adding it to an x < wrong_modulus
\* leaves x mod wrong_modulus
C9_BaseAux ==
    (pc = "ready" /\ rns.ok)
    => /\ ReducesTo(value(rns.base_aux), BigZero)
       /\ BigGt(value(rns.base_aux), rns.max_remainder)
       /\ \A x \in Near(BigZero) \cup Near(BigShr(rns.wrong_modulus, 1))
                     \cup { BigSub(rns.wrong_modulus, BigOne) } :
              ReducesTo(BigAdd(value(rns.base_aux), x), x)

C9_Witness ==
    /\ rns.ok
    /\ pc = "ready"
    /\ ReducesTo(value(rns.base_aux), BigZero)
    /\ BigGt(value(rns.base_aux), rns.max_remainder)

\* C10: when every limb of b is at most its declared maximum, every limb
\* a.limb[i] - b.limb[i] + aux.limb[i] of _sub is non-negative as an integer
C10_NoUnderflow ==
    (call.op = "sub"
     /\ \A i \in 1..NUMBER_OF_LIMBS :
            BigLe(fe_to_big(call.b.limbs[i].value), call.b.limbs[i].max_val))
    => \A i \in 1..NUMBER_OF_LIMBS :
           call.a.limbs[i].value - call.b.limbs[i].value + ret.aux.limbs[i] >= 0

C10_Witness ==
    /\ call.op = "sub"
    /\ \A i \in 1..NUMBER_OF_LIMBS :
           BigLe(fe_to_big(call.b.limbs[i].value), call.b.limbs[i].max_val)
    /\ \E i \in 1..NUMBER_OF_LIMBS :
           /\ BigGe(BigShl(fe_to_big(rns.base_aux.limbs[i]),
                           make_aux_max_shift(max_vals(call.b),
                               [j \in 1..NUMBER_OF_LIMBS |-> fe_to_big(rns.base_aux.limbs[j])], 1)),
                    rns.native_modulus)
           /\ call.a.limbs[i].value - call.b.limbs[i].value + ret.aux.limbs[i] < 0

\* the value the limbs of an assigned integer compose to
AssignedValue(a) ==
    compose([i \in 1..NUMBER_OF_LIMBS |-> fe_to_big(a.limbs[i].value)], rns.bit_len_limb)

\* every limb of an assigned integer is within its declared maximum
WithinMaxVals(a) ==
    \A i \in 1..NUMBER_OF_LIMBS : BigLe(fe_to_big(a.limbs[i].value), a.limbs[i].max_val)

\* the limbs make_aux would hand out before big_to_fe maps them into N
ShiftedBaseAux(b) ==
    [i \in 1..NUMBER_OF_LIMBS |->
        BigShl(fe_to_big(rns.base_aux.limbs[i]),
               make_aux_max_shift(max_vals(b),
                   [j \in 1..NUMBER_OF_LIMBS |-> fe_to_big(rns.base_aux.limbs[j])], 1))]

\* C11: for all a, b with b within its declared maxima, the integer c returned
\* by _sub satisfies c.value() = a.value() - b.value() modulo the wrong
\* modulus, the aux of make_aux being a multiple of the wrong modulus
C11_SubCongruent ==
    (call.op = "sub" /\ WithinMaxVals(call.b))
    => /\ BigRem(value(ret.aux), rns.wrong_modulus) = BigZero
       /\ BigRem(BigAdd(AssignedValue(ret.c), AssignedValue(call.b)), rns.wrong_modulus)
              = BigRem(AssignedValue(call.a), rns.wrong_modulus)

\* C11 where it fails: a shifted limb of base_aux has left the native field
C11_Witness ==
    /\ call.op = "sub"
    /\ WithinMaxVals(call.b)
    /\ \E i \in 1..NUMBER_OF_LIMBS : BigGe(ShiftedBaseAux(call.b)[i], rns.native_modulus)
    /\ BigRem(value(ret.aux), rns.wrong_modulus) # BigZero
    /\ BigRem(BigAdd(AssignedValue(ret.c), AssignedValue(call.b)), rns.wrong_modulus)
           # BigRem(AssignedValue(call.a), rns.wrong_modulus)

\* every limb of an Integer is at most max_unreduced_limb
InUnreducedRange(a) ==
    \A i \in 1..NUMBER_OF_LIMBS : BigLe(fe_to_big(a.limbs[i]), rns.max_unreduced_limb)

\* the low 2 * bit_len_limb bits of u_0, and of u_1 with the carry of u_0
LowBitsZero(r) ==
    /\ BigAnd(fe_to_big(r.u_0), rns.two_limb_mask) = BigZero
    /\ BigAnd(fe_to_big(FieldAdd(FieldMul(r.u_0, rns.right_shifter_2r, rns.N), r.u_1, rns.N)),
              rns.two_limb_mask) = BigZero

\* C12: in every call of the residue helper made by reduce on limbs of at
\* most max_unreduced_limb, or by mul on operands of at most max_operand, the
\* low 2 * bit_len_limb bits of u_0 and of u_1 with the carry of u_0 added are
\* zero, so that the sanity assertion does not fire
C12_ResiduesSane ==
    /\ (call.op = "reduce" /\ InUnreducedRange(call.a))
       => (~ret.panic /\ LowBitsZero(ret))
    /\ (call.op = "mul" /\ InOperandRange(call.a) /\ InOperandRange(call.b))
       => (~ret.panic /\ LowBitsZero(ret))

\* C12 for a product of two largest operands with residues that are not zero
C12_Witness ==
    /\ call.op = "mul"
    /\ value(call.a) = rns.max_operand
    /\ value(call.b) = rns.max_operand
    /\ ~ret.panic
    /\ ret.u_0 # 0
    /\ ret.u_1 # 0
    /\ LowBitsZero(ret)

\* binary_modulus = 2^(4 * bit_len_limb) of the configuration under construction
ConfigBinaryModulus == BigShl(BigOne, config.bit_len_limb * NUMBER_OF_LIMBS)

\* C13: Rns::construct aborts whenever binary_modulus = 2^(4 * bit_len_limb)
\* does not exceed the wrong modulus, or does not exceed the native modulus, or
\* binary_modulus * native_modulus is at most the square of the wrong modulus;
\* no bundle that violates one of the three is handed to a caller
C13_ConstructAborts ==
    pc # "new"
    => /\ ( \/ BigLe(ConfigBinaryModulus, modulus(config.W))
            \/ BigLe(ConfigBinaryModulus, modulus(config.N))
            \/ BigLe(BigMul(ConfigBinaryModulus, modulus(config.N)),
                     BigMul(modulus(config.W), modulus(config.W))) )
          => (pc = "aborted" /\ ~rns.ok)
       /\ pc # "aborted"
          => /\ rns.ok
             /\ rns.binary_modulus = ConfigBinaryModulus
             /\ BigGt(rns.binary_modulus, rns.wrong_modulus)
             /\ BigGt(rns.binary_modulus, rns.native_modulus)
             /\ BigGt(BigMul(rns.binary_modulus, rns.native_modulus),
                      BigMul(rns.wrong_modulus, rns.wrong_modulus))

\* C13 for a binary modulus above both moduli whose product with the native
\* modulus is below the square of the wrong modulus
C13_Witness ==
    /\ pc = "aborted"
    /\ ~rns.ok
    /\ BigGt(ConfigBinaryModulus, modulus(config.W))
    /\ BigGt(ConfigBinaryModulus, modulus(config.N))
    /\ BigLe(BigMul(ConfigBinaryModulus, modulus(config.N)),
             BigMul(modulus(config.W), modulus(config.W)))

\* C14: every Rns returned by construct has crt_modulus above
\* max_mul_quotient * wrong_modulus + max_remainder, that above the square of
\* max_operand, and max_operand and max_mul_quotient above the wrong modulus
C14_Bounds ==
    rns.ok
    => /\ BigGt(rns.crt_modulus,
                BigAdd(BigMul(rns.max_mul_quotient, rns.wrong_modulus), rns.max_remainder))
       /\ BigGt(BigAdd(BigMul(rns.max_mul_quotient, rns.wrong_modulus), rns.max_remainder),
                BigMul(rns.max_operand, rns.max_operand))
       /\ BigGt(rns.max_operand, rns.wrong_modulus)
       /\ BigGt(rns.max_mul_quotient, rns.wrong_modulus)

\* C14 for a bundle construct has just returned, its crt_modulus the product
\* of the binary and the native modulus
C14_Witness ==
    /\ pc = "ready"
    /\ rns.ok
    /\ rns.crt_modulus = BigMul(rns.binary_modulus, rns.native_modulus)
    /\ BigGt(rns.crt_modulus, BigMul(rns.max_operand, rns.max_operand))
    /\ BigGt(rns.max_operand, rns.wrong_modulus)

\* the quotient of reduce: value / wrong_modulus
QuotientOf(a) == BigDiv(value(a), rns.wrong_modulus)

\* C15 as stated: for every Integer with limbs of at most max_unreduced_limb
\* the quotient of reduce is below 2^bit_len_limb and the fatal assertion does
\* not fire, and reduce aborts only for inputs whose quotient is at least
\* 2^bit_len_limb
C15_AbortsOnlyOnQuotient ==
    call.op = "reduce"
    => /\ InUnreducedRange(call.a)
          => (BigLt(QuotientOf(call.a), BigShl(BigOne, rns.bit_len_limb)) /\ ~ret.panic)
       /\ ret.panic => BigGe(QuotientOf(call.a), BigShl(BigOne, rns.bit_len_limb))

\* C15 amended: for every Integer with limbs of at most max_unreduced_limb
\* the quotient of reduce is below 2^bit_len_limb and reduce does not abort;
\* every input whose quotient is at least 2^bit_len_limb aborts, and an input
\* that aborts with a smaller quotient has a limb above max_unreduced_limb
C15_ReduceQuotient ==
    call.op = "reduce"
    => /\ InUnreducedRange(call.a)
          => (BigLt(QuotientOf(call.a), BigShl(BigOne, rns.bit_len_limb)) /\ ~ret.panic)
       /\ BigGe(QuotientOf(call.a), BigShl(BigOne, rns.bit_len_limb)) => ret.panic
       /\ ret.panic
          => \/ BigGe(QuotientOf(call.a), BigShl(BigOne, rns.bit_len_limb))
             \/ ~InUnreducedRange(call.a)

\* C15 at the edge: the top limb is the first for which the quotient takes
\* more than one limb, and reduce aborts
C15_Witness ==
    /\ call.op = "reduce"
    /\ ~InUnreducedRange(call.a)
    /\ QuotientOf(call.a) = BigShl(BigOne, rns.bit_len_limb)
    /\ ret.panic

\* C15 with the largest limbs in range: the quotient fits one limb
C15_WitnessInRange ==
    /\ call.op = "reduce"
    /\ \A i \in 1..NUMBER_OF_LIMBS : fe_to_big(call.a.limbs[i]) = rns.max_unreduced_limb
    /\ BigGt(QuotientOf(call.a), BigZero)
    /\ ~ret.panic

\* every limb of an Integer is below 2^bit_len_limb
InDenseRange(a) ==
    \A i \in 1..NUMBER_OF_LIMBS :
        BigLt(fe_to_big(a.limbs[i]), BigShl(BigOne, rns.bit_len_limb))

\* C20: for every Integer with all four limbs below 2^bit_len_limb,
\* compare_to_modulus returns borrow flags and a result with every limb below
\* 2^bit_len_limb; the most significant borrow flag is false exactly when the
\* value is below the wrong modulus, and then the result's value is
\* (wrong_modulus - 1) - value; a value of at least the wrong modulus sets
\* the most significant borrow flag
C20_CompareToModulus ==
    (call.op = "compare_to_modulus" /\ InDenseRange(call.a))
    => /\ ~ret.panic
       /\ Len(ret.borrow) = NUMBER_OF_LIMBS
       /\ InDenseRange(ret.result)
       /\ ~ret.borrow[NUMBER_OF_LIMBS] <=> BigLt(value(call.a), rns.wrong_modulus)
       /\ ~ret.borrow[NUMBER_OF_LIMBS]
          => BigAdd(value(ret.result), value(call.a)) = BigSub(rns.wrong_modulus, BigOne)
       /\ BigGe(value(call.a), rns.wrong_modulus) => ret.borrow[NUMBER_OF_LIMBS]

\* C20 for the largest value below the wrong modulus: no borrow, result zero
C20_Witness ==
    /\ call.op = "compare_to_modulus"
    /\ InDenseRange(call.a)
    /\ value(call.a) = BigSub(rns.wrong_modulus, BigOne)
    /\ ~ret.panic
    /\ ret.borrow = <<FALSE, FALSE, FALSE, FALSE>>
    /\ value(ret.result) = BigZero

\* C20 for the wrong modulus itself: the borrow runs through every limb
C20_WitnessBorrow ==
    /\ call.op = "compare_to_modulus"
    /\ value(call.a) = rns.wrong_modulus
    /\ ~ret.panic
    /\ ret.borrow[NUMBER_OF_LIMBS]

\* the limbs of the Integer that holds 0 or 1, for x in {0, 1}
UnitLimbs(x) == << x, 0, 0, 0 >>

\* C16: for every known operand a, _invert assigns inv_or_one = the inverse
\* of a in the wrong field when there is one and the unit otherwise; the
\* product a * inv_or_one modulo the wrong modulus has the limbs [x, 0, 0, 0]
\* with x in {0, 1}, and the condition is 1 - x: 0 exactly when a is
\* invertible (and inv_or_one * a = 1 in the wrong field), 1 exactly when a
\* is 0 in the wrong field (and inv_or_one is the Integer 1)
C16_InvertCondition ==
    (call.op = "invert" /\ call.fail = NoFail /\ integer_of(rns, call.a).is_some)
    => /\ "ok" \in DOMAIN ret
       /\ ret.ok
       /\ integer_of(rns, ret.value.inv).is_some
       /\ ret.value.cond.value.is_some
       /\ \E x \in { 0, 1 } :
             /\ decompose(BigRem(BigMul(value(integer_of(rns, call.a).value),
                                        value(integer_of(rns, ret.value.inv).value)),
                                 rns.wrong_modulus),
                          NUMBER_OF_LIMBS, rns.bit_len_limb, rns.N) = UnitLimbs(x)
             /\ ret.value.cond.value.value = 1 - x
       /\ (ret.value.cond.value.value = 0)
          <=> BigRem(value(integer_of(rns, call.a).value), rns.wrong_modulus) # BigZero
       /\ (ret.value.cond.value.value = 1)
          <=> BigRem(value(integer_of(rns, call.a).value), rns.wrong_modulus) = BigZero
       /\ (ret.value.cond.value.value = 1)
          => integer_of(rns, ret.value.inv).value.limbs = UnitLimbs(1)

\* C16 for an operand that is the wrong modulus itself: the unit is
\* assigned and the condition is 1
C16_Witness ==
    /\ call.op = "invert"
    /\ call.fail = NoFail
    /\ integer_of(rns, call.a).is_some
    /\ value(integer_of(rns, call.a).value) = rns.wrong_modulus
    /\ ret.ok
    /\ ret.value.cond.value = Some(1)
    /\ integer_of(rns, ret.value.inv).value.limbs = UnitLimbs(1)

\* C16 for an invertible operand: the condition is 0
C16_WitnessInvertible ==
    /\ call.op = "invert"
    /\ call.fail = NoFail
    /\ integer_of(rns, call.a).is_some
    /\ value(integer_of(rns, call.a).value) = BigSub(rns.wrong_modulus, BigOne)
    /\ ret.ok
    /\ ret.value.cond.value = Some(0)
    /\ value(integer_of(rns, ret.value.inv).value) = BigSub(rns.wrong_modulus, BigOne)

\* no limb witness and no native witness of an assigned integer is known
AllUnknown(a) ==
    /\ \A i \in 1..NUMBER_OF_LIMBS : a.limbs[i].value = None
    /\ a.native_value = None

\* C17: absence propagates: with an operand whose witness is absent, the
\* candidate inverse and the condition of _invert are absent, and so are the
\* limb values and the native value _assign_integer assigns; no operation
\* turns an absent operand into a concrete value
C17_AbsencePropagates ==
    /\ (call.op = "invert" /\ ~integer_of(rns, call.a).is_some /\ call.fail = NoFail)
       => /\ "ok" \in DOMAIN ret /\ ret.ok
          /\ AllUnknown(ret.value.inv)
          /\ ret.value.cond.value = None
    /\ (call.op \in { "assign_integer", "range_assign_integer" }
            /\ call.integer = None /\ call.fail = NoFail)
       => (ret.ok /\ AllUnknown(ret.value))
    /\ (call.op = "sub" /\ "fail" \in DOMAIN call /\ call.fail = NoFail /\ AllUnknown(call.b))
       => (ret.ok /\ AllUnknown(ret.value))

\* C17 for _invert of an integer assigned without a witness
C17_Witness ==
    /\ call.op = "invert"
    /\ call.fail = NoFail
    /\ AllUnknown(call.a)
    /\ ret.ok
    /\ AllUnknown(ret.value.inv)
    /\ ret.value.cond.value = None

\* C18: when a main-gate or range call inside _assign_integer,
\* _range_assign_integer, _sub or _invert returns an error, the operation
\* returns that error at once: none of its later calls assigns a row, and
\* there is no result
C18_ErrorPropagates ==
    (call.op \in { "assign_integer", "range_assign_integer", "sub", "invert" }
        /\ "fail" \in DOMAIN call /\ call.fail # NoFail)
    => /\ DOMAIN ret = { "ok", "error", "region" }
       /\ ~ret.ok
       /\ ret.error = call.fail.error
       /\ region = ret.region
       /\ region.offset = call.offset + call.fail.at - 1
       /\ pc = "failed"

\* C18 for _invert whose multiplication fails after the six calls of the
\* range assignment
C18_Witness ==
    /\ call.op = "invert"
    /\ call.fail = [at |-> 7, error |-> "NotEnoughRowsAvailable"]
    /\ ret = [ok |-> FALSE, error |-> "NotEnoughRowsAvailable", region |-> region]
    /\ region.offset = call.offset + 6
    /\ call.offset > 0
    /\ pc = "failed"

\* no row of the region has been assigned twice
NoRowTwice(rows) ==
    \A i \in 1..Len(rows), j \in 1..Len(rows) : rows[i] = rows[j] => i = j

\* C19: across the calls of _assign_integer, _range_assign_integer, _sub and
\* _invert that share a region and an offset, the offset never decreases,
\* every successful call leaves it greater than it found it, and no row an
\* earlier call has assigned is assigned again
C19_OffsetAdvances ==
    [][ /\ region'.offset >= region.offset
        /\ (pc' = "region" /\ ret'.ok) => region'.offset > region.offset
        /\ Len(region'.rows) >= Len(region.rows)
        /\ SubSeq(region'.rows, 1, Len(region.rows)) = region.rows
        /\ NoRowTwice(region'.rows) ]_vars

\* C19 after a second successful call in the region
C19_Witness ==
    /\ pc = "region"
    /\ ret.ok
    /\ call.offset > 0
    /\ region.offset > call.offset
    /\ Len(region.rows) = region.offset
    /\ NoRowTwice(region.rows)

\* one addend of the convolution: a.limb[i] * b.limb[j] +
\* negative_modulus.limb[i] * quotient.limb[j] in N, zero where a limb index
\* lies past the last limb
ConvolutionAddend(a, b, q, i, j) ==
    IF i >= NUMBER_OF_LIMBS \/ j >= NUMBER_OF_LIMBS THEN 0
    ELSE FieldAdd(FieldMul(a.limbs[i + 1], b.limbs[j + 1], rns.N),
                  FieldMul(rns.negative_wrong_modulus_decomposed[i + 1], q.limbs[j + 1], rns.N),
                  rns.N)

\* the k-th term of the schoolbook convolution, the sum over i + j = k
ConvolutionTerm(a, b, q, k) ==
    LET addend(i) == IF i <= k THEN ConvolutionAddend(a, b, q, i, k - i) ELSE 0
    IN  FieldAdd(FieldAdd(addend(0), addend(1), rns.N),
                 FieldAdd(FieldAdd(addend(2), addend(3), rns.N),
                          FieldAdd(FieldAdd(addend(4), addend(5), rns.N), addend(6), rns.N),
                          rns.N),
                 rns.N)

\* C21 as stated: the t returned by mul holds the convolution terms t[k]
\* for every k in 0 .. 2 * 4 - 1, all 7 of them
C21_AllConvolutionTerms ==
    (call.op = "mul" /\ InOperandRange(call.a) /\ InOperandRange(call.b))
    => /\ ~ret.panic
       /\ Len(ret.t) = 2 * NUMBER_OF_LIMBS - 1
       /\ \A k \in 0..(2 * NUMBER_OF_LIMBS - 2) :
              ret.t[k + 1] = ConvolutionTerm(call.a, call.b, ret.quotient.integer, k)

\* C21 amended: the t returned by mul holds the convolution terms t[k] =
\* sum over i + j = k of a.limb[i] * b.limb[j] + negative_modulus.limb[i] *
\* quotient.limb[j] for k in 0 .. 4 only, the 4 low terms
C21_LowConvolutionTerms ==
    (call.op = "mul" /\ InOperandRange(call.a) /\ InOperandRange(call.b))
    => /\ ~ret.panic
       /\ Len(ret.t) = NUMBER_OF_LIMBS
       /\ \A k \in 0..(NUMBER_OF_LIMBS - 1) :
              ret.t[k + 1] = ConvolutionTerm(call.a, call.b, ret.quotient.integer, k)

\* C21 for two largest operands: four terms, none of them zero
C21_Witness ==
    /\ call.op = "mul"
    /\ value(call.a) = rns.max_operand
    /\ value(call.b) = rns.max_operand
    /\ ~ret.panic
    /\ Len(ret.t) = NUMBER_OF_LIMBS
    /\ \A k \in 1..NUMBER_OF_LIMBS : ret.t[k] # 0
    /\ ret.t[NUMBER_OF_LIMBS]
           = ConvolutionTerm(call.a, call.b, ret.quotient.integer, NUMBER_OF_LIMBS - 1)

\* t[lo] + s * t[lo + 1] - r.limb[lo] - s * r.limb[lo + 1] in N, s = 2^bit_len_limb
ResidueAt(t, r, lo) ==
    FieldSub(FieldSub(FieldAdd(t[lo + 1],
                               FieldMul(big_to_fe(BigShl(BigOne, rns.bit_len_limb), rns.N),
                                        t[lo + 2], rns.N), rns.N),
                      r.limbs[lo + 1], rns.N),
             FieldMul(big_to_fe(BigShl(BigOne, rns.bit_len_limb), rns.N), r.limbs[lo + 2], rns.N),
             rns.N)

\* the call is a reduce or a mul on operands within their ranges
InRangeCall ==
    \/ call.op = "reduce" /\ InUnreducedRange(call.a)
    \/ call.op = "mul" /\ InOperandRange(call.a) /\ InOperandRange(call.b)

\* C22 as stated: the u_1 of the ReductionContext is t[2] + s * t[3] -
\* result.limb[2] - s * result.limb[3] plus the overflow of u_0, which is
\* u_0 divided by 2^(2 * bit_len_limb), and u_0 is t[0] + s * t[1] -
\* result.limb[0] - s * result.limb[1]
C22_CarriedResidue ==
    InRangeCall
    => /\ ~ret.panic
       /\ ret.u_0 = ResidueAt(ret.t, ret.result, 0)
       /\ fe_to_big(ret.u_1)
              = BigAdd(fe_to_big(ResidueAt(ret.t, ret.result, 2)),
                       BigShr(fe_to_big(ret.u_0), 2 * rns.bit_len_limb))

\* C22 amended: the u_1 of the ReductionContext is t[2] + s * t[3] -
\* result.limb[2] - s * result.limb[3] without the overflow of u_0; the
\* overflow v_0 = u_0 / 2^(2 * bit_len_limb) is added in v_1 only, which is
\* the sum u_1 + v_0 taken in N and divided by 2^(2 * bit_len_limb)
C22_Residues ==
    InRangeCall
    => /\ ~ret.panic
       /\ ret.u_0 = ResidueAt(ret.t, ret.result, 0)
       /\ ret.u_1 = ResidueAt(ret.t, ret.result, 2)
       /\ fe_to_big(ret.v_0) = BigShr(fe_to_big(ret.u_0), 2 * rns.bit_len_limb)
       /\ fe_to_big(ret.v_1)
              = BigShr(fe_to_big(FieldAdd(ret.u_1, ret.v_0, rns.N)), 2 * rns.bit_len_limb)

\* C22 where the two readings differ: u_0 has an overflow to carry
C22_Witness ==
    /\ call.op = "mul"
    /\ InOperandRange(call.a)
    /\ InOperandRange(call.b)
    /\ ~ret.panic
    /\ ret.v_0 # 0
    /\ ret.u_1 = ResidueAt(ret.t, ret.result, 2)
    /\ ret.v_1 # 0

\* max_mul_quotient * wrong_modulus + max_remainder
MaxProduct == BigAdd(BigMul(rns.max_mul_quotient, rns.wrong_modulus), rns.max_remainder)

\* 2^k - 1, and whether its square is below MaxProduct
OperandBound(k) == BigSub(BigShl(BigOne, k), BigOne)
OperandBoundFits(k) == BigGt(MaxProduct, BigMul(OperandBound(k), OperandBound(k)))

\* C23 as stated: max_operand is 2^k - 1 for the largest bit length k with
\* crt_modulus > max_mul_quotient * wrong_modulus + max_remainder >
\* (2^k - 1)^2; no bound one bit longer satisfies both inequalities
C23_LargestOperand ==
    rns.ok
    => /\ rns.max_operand = OperandBound(BigBits(rns.max_operand))
       /\ BigGt(rns.crt_modulus, MaxProduct)
       /\ OperandBoundFits(BigBits(rns.max_operand))
       /\ ~OperandBoundFits(BigBits(rns.max_operand) + 1)

\* C23 amended: max_operand is 2^k - 1 for k = bits(max_mul_quotient *
\* wrong_modulus + max_remainder) / 2 - 1, which satisfies both inequalities;
\* a bound one bit longer can satisfy them as well, one two bits longer
\* never does
C23_OperandBound ==
    rns.ok
    => /\ BigBits(rns.max_operand) = (BigBits(MaxProduct) \div 2) - 1
       /\ rns.max_operand = OperandBound(BigBits(rns.max_operand))
       /\ BigGt(rns.crt_modulus, MaxProduct)
       /\ OperandBoundFits(BigBits(rns.max_operand))
       /\ ~OperandBoundFits(BigBits(rns.max_operand) + 2)
       /\ OperandBoundFits(BigBits(rns.max_operand) + 1) => BigBits(MaxProduct) % 2 = 1

\* C23 for a bundle in which the bound one bit longer fits as well
C23_Witness ==
    /\ pc = "ready"
    /\ rns.ok
    /\ OperandBoundFits(BigBits(rns.max_operand))
    /\ OperandBoundFits(BigBits(rns.max_operand) + 1)
    /\ BigGt(rns.crt_modulus, MaxProduct)

\* the smallest k with base_aux.limb[i] * 2^k >= max[i] for every limb i
LeastScale(max) ==
    LET enough == { k \in 0..BigBits(MaxValOf(call.b, 1)) :
                      \A i \in 1..NUMBER_OF_LIMBS :
                          BigGe(BigShl(fe_to_big(rns.base_aux.limbs[i]), k), max[i]) }
    IN  CHOOSE k \in enough : \A t \in enough : k <= t

\* C24: make_aux returns base_aux with every limb multiplied by 2^k, k the
\* smallest non-negative integer with base_aux.limb[i] * 2^k >= max_vals[i]
\* for all four limbs, so that every returned limb is at least its max_vals
\* entry (and k = 0 when base_aux dominates max_vals already)
C24_ScaledAux ==
    call.op = "sub"
    => \A i \in 1..NUMBER_OF_LIMBS :
           /\ fe_to_big(ret.aux.limbs[i])
                  = BigShl(fe_to_big(rns.base_aux.limbs[i]), LeastScale(max_vals(call.b)))
           /\ BigGe(fe_to_big(ret.aux.limbs[i]), max_vals(call.b)[i])

\* C24 where it fails: a limb returned by make_aux is below its max_vals
\* entry, the scaled limb of base_aux having left the native field
C24_Witness ==
    /\ call.op = "sub"
    /\ \E i \in 1..NUMBER_OF_LIMBS :
           /\ BigGe(BigShl(fe_to_big(rns.base_aux.limbs[i]), LeastScale(max_vals(call.b))),
                    rns.native_modulus)
           /\ BigLt(fe_to_big(ret.aux.limbs[i]), max_vals(call.b)[i])

\* C25: the rows x * x = x, (x - 1) * inv[i] = 0 for the upper limbs and
\* (x - 1) * (inv[0] - 1) = 0 that _invert emits on x = a_mul_inv.limb[0]
\* force inv_or_one to be [1, 0, 0, 0] in every satisfying assignment with
\* x = 0, and are satisfied by every inv_or_one when x = 1
C25_InvertConstraints ==
    call.op = "verify_invert"
    => /\ (ret.satisfied /\ call.x = 0) => call.inv = << 1, 0, 0, 0 >>
       /\ call.x = 1 => ret.satisfied
       /\ ret.satisfied => call.x \in { 0, 1 }

\* C25 for a satisfying assignment with x = 0
C25_Witness ==
    /\ call.op = "verify_invert"
    /\ call.x = 0
    /\ ret.satisfied

\* the limbs of an operand of mul: the three lower ones at most
\* max_reduced_limb, the top one at most max_most_significant_operand_limb
InOperandLimbs(a) ==
    /\ \A i \in 1..(NUMBER_OF_LIMBS - 1) : BigLe(fe_to_big(a.limbs[i]), rns.max_reduced_limb)
    /\ BigLe(fe_to_big(a.limbs[NUMBER_OF_LIMBS]), rns.max_most_significant_operand_limb)

\* v_0 and v_1 fit bit_len_limb bits and the overflow bits o_0 and o_1
CarriesWithin(r, o_0, o_1) ==
    /\ r.v_0 < 2 ^ (rns.bit_len_limb + o_0)
    /\ r.v_1 < 2 ^ (rns.bit_len_limb + o_1)

\* C26: for all operands a, b of mul in the max_operand range the carries
\* satisfy v_0 < 2^(bit_len_limb + mul_v0_overflow) and v_1 <
\* 2^(bit_len_limb + mul_v1_overflow), and for every reduce of limbs of at
\* most max_unreduced_limb they satisfy v_0 < 2^(bit_len_limb +
\* red_v0_overflow) and v_1 < 2^(bit_len_limb + red_v1_overflow)
C26_CarryBounds ==
    /\ (call.op = "mul" /\ InOperandLimbs(call.a) /\ InOperandLimbs(call.b))
       => (~ret.panic /\ CarriesWithin(ret, rns.mul_v0_overflow, rns.mul_v1_overflow))
    /\ (call.op = "reduce" /\ InUnreducedRange(call.a))
       => (~ret.panic /\ CarriesWithin(ret, rns.red_v0_overflow, rns.red_v1_overflow))

\* C26 for a product of two largest operands with a carry v_0 of more than
\* bit_len_limb bits
C26_Witness ==
    /\ call.op = "mul"
    /\ value(call.a) = rns.max_operand
    /\ value(call.b) = rns.max_operand
    /\ InOperandLimbs(call.a)
    /\ ~ret.panic
    /\ ret.v_0 >= 2 ^ rns.bit_len_limb
    /\ CarriesWithin(ret, rns.mul_v0_overflow, rns.mul_v1_overflow)

\* C26 for a reduce of four limbs of max_unreduced_limb
C26_ReduceWitness ==
    /\ call.op = "reduce"
    /\ \A i \in 1..NUMBER_OF_LIMBS : fe_to_big(call.a.limbs[i]) = rns.max_unreduced_limb
    /\ ~ret.panic
    /\ CarriesWithin(ret, rns.red_v0_overflow, rns.red_v1_overflow)

\* C27: in every bundle construct returns, each of the three lower limbs of
\* base_aux is at least max_reduced_limb and the top limb at least
\* max_most_significant_reduced_limb, and the limbs the borrow pass leaves
\* compose to exactly twice the wrong modulus
C27_BaseAuxLimbs ==
    (pc = "ready" /\ rns.ok)
    => /\ \A i \in 1..(NUMBER_OF_LIMBS - 1) :
              BigGe(fe_to_big(rns.base_aux.limbs[i]), rns.max_reduced_limb)
       /\ BigGe(fe_to_big(rns.base_aux.limbs[NUMBER_OF_LIMBS]),
                rns.max_most_significant_reduced_limb)
       /\ value(rns.base_aux) = BigShl(rns.wrong_modulus, 1)

\* C27 for a bundle in which the borrow pass has moved a unit of the top
\* limb into the limb below
C27_Witness ==
    /\ pc = "ready"
    /\ rns.ok
    /\ fe_to_big(rns.base_aux.limbs[NUMBER_OF_LIMBS])
           = BigSub(BigShl(fe_to_big(rns.wrong_modulus_decomposed[NUMBER_OF_LIMBS]), 1), BigOne)
    /\ BigGt(fe_to_big(rns.base_aux.limbs[NUMBER_OF_LIMBS - 1]), rns.max_reduced_limb)
    /\ value(rns.base_aux) = BigShl(rns.wrong_modulus, 1)

\* C28: make_aux terminates for every bundle construct returns and every
\* vector of four non-negative max_vals: every call that has started returns
C28_MakeAuxTerminates == (pc = "make_aux") ~> (pc = "returned" /\ call.op = "make_aux")

\* C28 for a call whose loop has doubled a limb of base_aux and that hands
\* back what make_aux computes in one go
C28_Witness ==
    /\ pc = "returned"
    /\ call.op = "make_aux"
    /\ acc.max_shift > 0
    /\ \A i \in 1..NUMBER_OF_LIMBS : rns.base_aux.limbs[i] # 0
    /\ ret = make_aux(rns, call.max_vals)

\* the quotient of mul: a.value() * b.value() / wrong_modulus
MulQuotientOf(a, b) == BigDiv(BigMul(value(a), value(b)), rns.wrong_modulus)

\* C29: for all operands a, b of value at most max_operand the quotient
\* floor(a * b / wrong_modulus) of mul is at most max_mul_quotient and at
\* most max_dense_value, so that the assertion of new_from_big does not fire
C29_MulQuotientDense ==
    (call.op = "mul" /\ InOperandRange(call.a) /\ InOperandRange(call.b))
    => /\ BigLe(MulQuotientOf(call.a, call.b), rns.max_mul_quotient)
       /\ BigLe(MulQuotientOf(call.a, call.b), rns.max_dense_value)
       /\ new_from_big_asserts(rns, MulQuotientOf(call.a, call.b))
       /\ ~ret.panic
       /\ value(ret.quotient.integer) = MulQuotientOf(call.a, call.b)

\* C29 for the product of two largest operands, whose quotient is above
\* the wrong modulus
C29_Witness ==
    /\ call.op = "mul"
    /\ value(call.a) = rns.max_operand
    /\ value(call.b) = rns.max_operand
    /\ BigGt(MulQuotientOf(call.a, call.b), rns.wrong_modulus)
    /\ BigLe(MulQuotientOf(call.a, call.b), rns.max_mul_quotient)
    /\ ~ret.panic

\* every limb witness of an assigned integer is known
KnownLimbs(a) == \A i \in 1..NUMBER_OF_LIMBS : a.limbs[i].value.is_some

\* the sum of limb[i] * 2^(i * bit_len_limb) over the limb witnesses of an
\* assigned integer
LimbSum(a) ==
    compose([i \in 1..NUMBER_OF_LIMBS |-> fe_to_big(a.limbs[i].value.value)], rns.bit_len_limb)

\* C30: every assigned integer with known witnesses that _assign_integer,
\* _range_assign_integer or _sub has handed back has a native value equal
\* to the sum of limb[i] * 2^(i * bit_len_limb) modulo the native modulus
C30_NativeValue ==
    (pc = "region" /\ KnownLimbs(acc))
    => /\ acc.native_value.is_some
       /\ acc.native_value.value = big_to_fe(LimbSum(acc), rns.N)

\* C30 after a _sub whose result has limbs that sum to more than the native
\* modulus
C30_Witness ==
    /\ pc = "region"
    /\ call.op = "sub"
    /\ KnownLimbs(acc)
    /\ BigGt(LimbSum(acc), rns.native_modulus)
    /\ acc.native_value.is_some
    /\ acc.native_value.value = big_to_fe(LimbSum(acc), rns.N)
====
